---- MODULE Spec2Model ----
(***************************************************************************)
(* State-machine model of rapport: the tool registry (src/rapport/tools.py),*)
(* the agent loop that drives it (src/rapport/view_chat.py) and the chat   *)
(* gateway (src/rapport/chatgateway/chatgateway.py).                       *)
(*                                                                         *)
(* The specifications share the definitions below:                         *)
(*   SpecRegistry  - the ToolRegistry called directly, over every small    *)
(*                   configuration of tool servers;                        *)
(*   Spec          - the chat page: user submissions and                   *)
(*                   generate_assistant_message over a fixed configuration;*)
(*   SpecRetrigger - the chat page with a model that asks for one tool     *)
(*                   call in every turn;                                   *)
(*   SpecStream    - one stream_model_response over every small stream;    *)
(*   SpecThreads   - the ToolRegistry called from several threads;         *)
(*   SpecGateway   - ChatGateway construction and chat();                  *)
(*   SpecAdaptor   - one chat() call of a provider adaptor;                *)
(*   SpecRequest   - the request an adaptor builds from a conversation;    *)
(*   SpecRegenerate - the Regenerate button.                               *)
(***************************************************************************)
EXTENDS Integers, Sequences, FiniteSets, TLC

\* ------------------------------------------------------------------------
\* Bounds of the model
\* ------------------------------------------------------------------------

\* number of entries of Config.mcp_servers explored by SpecRegistry
NumServers == 2

\* ------------------------------------------------------------------------
\* Values
\* ------------------------------------------------------------------------

\* names a tool server can advertise
ToolNames == {"search", "add"}

\* a name the model may ask for that no server advertises
BogusName == "bogus"

\* URLMCPServer.id / StdioMCPServer.id values
ServerIds == {"u1", "u2"}

\* allowed_tools lists as written in config.json (entries may carry blanks)
AllowedLists == {<<>>, <<"search">>, <<" add ", "search">>}

\* str.strip() on the entries above
Strip(x) == IF x = " add " THEN "add" ELSE x

Range(f) == {f[i] : i \in DOMAIN f}

\* one entry of Config.mcp_servers
ServerRecs == [id : ServerIds, allowed_tools : AllowedLists]

\* what happens when the registry opens the client and lists the tools:
\* the listing, ProcessLookupError, or any other exception
Listings ==
    {[status |-> "ok", tools |-> t] : t \in SUBSET ToolNames \ {{"add"}}}
    \cup {[status |-> "ProcessLookupError", tools |-> {}],
          [status |-> "Error", tools |-> {}]}

\* content segments a tool call returns
TextSeg(t) == [type |-> "text", text |-> t]
ImageSeg == [type |-> "image", text |-> ""]
CallResults == {<<>>, <<ImageSeg, TextSeg("4")>>, <<TextSeg("4"), TextSeg("5")>>}

\* what happens when client.call_tool runs
CallOutcomes ==
    {[status |-> "ok", segs |-> r] : r \in CallResults}
    \cup {[status |-> "ProcessLookupError", segs |-> <<>>],
          [status |-> "Error", segs |-> <<>>]}

NoCall == [status |-> "ok", segs |-> <<>>]

\* one use of a server by _run_tool: the listing, then (when the listing
\* succeeded) the call
Conns ==
    {[listing |-> l, call |-> NoCall] : l \in {x \in Listings : x.status /= "ok"}}
    \cup [listing : {x \in Listings : x.status = "ok"}, call : CallOutcomes]

\* the uses of a server that ExecuteTool is explored with: the server lists
\* every tool or none, and a call answers with two text segments
RegistryConns ==
    {c \in Conns :
        /\ c.listing.status = "ok" => c.listing.tools \in {{}, ToolNames}
        /\ c.call.status = "ok" =>
              c.call.segs \in {<<>>, <<TextSeg("4"), TextSeg("5")>>}
        /\ c.listing.tools = {} => c.call = NoCall}

VARIABLES
    config,           \* Config.mcp_servers, in dict order
    client_cache,     \* ToolRegistry._client_cache: server id -> client (0: none)
    clients_created,  \* number of Client objects constructed so far
    tools,            \* ToolRegistry.tools: name -> Tool
    initialised,      \* ToolRegistry._initialised
    lastOp,           \* the last registry call: its outcome and what it touched
    discovered,       \* the listings the last running initialise_tools got
    completed,        \* some initialise_tools call has returned normally
    messages,         \* _s.chat.messages
    generate_assistant, \* _s.generate_assistant
    pc,               \* where generate_assistant_message stands
    turns,            \* its local turns
    tool_acc,         \* its local tool_acc
    tool_idx,         \* position of "for tool_call in tool_acc"
    text,             \* what st.write_stream has been given in this turn
    chunks,           \* chunks received from the stream of this turn
    next_id,          \* the id the provider gives its next tool_use block
    run,              \* bookkeeping of the current generate_assistant_message
    stream,           \* one stream_model_response generator and its consumer
    threads,          \* the threads that call the registry, and their coroutines
    tool_writes,      \* how often "self.tools = new_tools" has run
    gateway,          \* the ChatGateway and the outcome of its last chat()
    adaptor,          \* one chat() call of a provider adaptor
    request           \* one projection of a conversation for a provider

regVars == <<config, client_cache, clients_created, tools, initialised,
             lastOp, discovered, completed>>

loopVars == <<messages, generate_assistant, pc, turns, tool_acc, tool_idx,
              text, chunks, next_id, run>>

\* the state of the parts that a specification leaves alone
otherVars == <<stream, threads, tool_writes, gateway, adaptor, request>>

vars == <<config, client_cache, clients_created, tools, initialised,
          lastOp, discovered, completed, messages, generate_assistant, pc,
          turns, tool_acc, tool_idx, text, chunks, next_id, run,
          stream, threads, tool_writes, gateway, adaptor, request>>

\* ------------------------------------------------------------------------
\* ToolRegistry
\* ------------------------------------------------------------------------

NoOp == [op |-> "none", kind |-> "return", value |-> "", contacted |-> <<>>,
         clients |-> <<>>, created |-> 0, invoked |-> FALSE, snapshot |-> {},
         failure |-> "none", tool |-> "",
         listed |-> [status |-> "none", tools |-> {}]]

\* ToolRegistry.__init__
RegistryInit ==
    /\ client_cache = [s \in ServerIds |-> 0]
    /\ clients_created = 0
    /\ tools = <<>>
    /\ initialised = FALSE
    /\ lastOp = NoOp
    /\ discovered = <<>>
    /\ completed = FALSE

\* mutant: a Client is constructed on every call
get_client_sync_uncached(cache, n, s) ==
    [cache |-> [cache EXCEPT ![s.id] = n + 1], n |-> n + 1]

\* _get_client_sync: the cached client, or a new one put in the cache
get_client_sync(cache, n, s) ==
    IF cache[s.id] = 0
    THEN [cache |-> [cache EXCEPT ![s.id] = n + 1], n |-> n + 1]
    ELSE [cache |-> cache, n |-> n]

\* mutant: _list_tools catching only ProcessLookupError, as _run_tool does
list_tools_catches_lookup_only(status) == status = "ProcessLookupError"

\* the exceptions _list_tools catches: "except ProcessLookupError" and
\* "except Exception"
list_tools_catches(status) == status \in {"ProcessLookupError", "Error"}

\* _list_tools: the listing, or the empty list for a caught exception
list_tools(listing) ==
    IF listing.status = "ok" THEN listing.tools ELSE {}

\* _get_available_tools: one Tool per listed tool, owned by config entry i
get_available_tools(i, listing) ==
    {[name |-> x, server |-> i] : x \in list_tools(listing)}

\* "allowed_tools = [x.strip() for x in s.allowed_tools]"
allowed_names(s) == {Strip(x) : x \in Range(s.allowed_tools)}

\* mutant: the allow-list filter left out, every listed tool is yielded
enabled_of_unfiltered(s, available) == available

\* the tools of one server that _iterate_enabled_tools yields
enabled_of(s, available) ==
    IF allowed_names(s) /= {} /\ available /= {}
    THEN {x \in available : x.name \in allowed_names(s)}
    ELSE {}

\* mutant: seen_tools started afresh for every server
duplicate_seen_per_server(names, seen_tools) == FALSE

\* "if n in seen_tools" for some listed name
duplicate_seen(names, seen_tools) == names \cap seen_tools /= {}

\* new_tools[tool.name] = tool for the yielded tools
add_tools(new_tools, yielded) ==
    [n \in DOMAIN new_tools \cup {x.name : x \in yielded} |->
        IF \E x \in yielded : x.name = n
        THEN CHOOSE x \in yielded : x.name = n
        ELSE new_tools[n]]

\* _iterate_enabled_tools as driven by initialise_tools, from server i on;
\* raised is "none" or the exception that ended it
RECURSIVE iterate_enabled_tools(_, _, _, _, _)
iterate_enabled_tools(cfg, listings, i, seen_tools, st) ==
    IF i > Len(cfg)
    THEN st
    ELSE LET s == cfg[i]
             c == get_client_sync(st.cache, st.n, s)
             available_tools == get_available_tools(i, listings[i])
             names == {x.name : x \in available_tools}
             st1 == [st EXCEPT !.cache = c.cache, !.n = c.n,
                               !.contacted = Append(@, s.id),
                               !.clients = Append(@, c.cache[s.id])]
         IN  IF listings[i].status /= "ok"
                /\ ~list_tools_catches(listings[i].status)
             THEN [st1 EXCEPT !.raised = listings[i].status]
             ELSE IF duplicate_seen(names, seen_tools)
             THEN [st1 EXCEPT !.raised = "ValueError"]
             ELSE iterate_enabled_tools(
                    cfg, listings, i + 1, seen_tools \cup names,
                    [st1 EXCEPT !.new_tools =
                        add_tools(@, enabled_of(s, available_tools))])

\* the loop of initialise_tools over _iterate_enabled_tools
initialise_tools(cfg, listings, cache, n) ==
    iterate_enabled_tools(cfg, listings, 1, {},
        [raised |-> "none", new_tools |-> <<>>, cache |-> cache, n |-> n,
         contacted |-> <<>>, clients |-> <<>>])

\* mutant: "self._initialised = True" forgotten
initialised_after_forgotten(raised) == initialised

\* "self._initialised = True", reached when nothing was raised
initialised_after(raised) == IF raised = "none" THEN TRUE ELSE initialised

\* ToolRegistry.initialise_tools
InitialiseTools ==
    /\ pc = "idle"
    /\ UNCHANGED loopVars
    /\ UNCHANGED otherVars
    /\ IF initialised
       THEN /\ lastOp' = [NoOp EXCEPT !.op = "initialise_tools"]
            /\ UNCHANGED <<config, client_cache, clients_created, tools,
                           initialised, discovered, completed>>
       ELSE \E listings \in [1..Len(config) -> Listings] :
              \E r \in {initialise_tools(config, listings, client_cache,
                                         clients_created)} :
                  /\ client_cache' = r.cache
                  /\ clients_created' = r.n
                  /\ discovered' = listings
                  /\ tools' = IF r.raised = "none" THEN r.new_tools ELSE tools
                  /\ initialised' = initialised_after(r.raised)
                  /\ completed' = IF r.raised = "none" THEN TRUE
                                  ELSE completed
                  /\ lastOp' = [NoOp EXCEPT
                         !.op = "initialise_tools",
                         !.kind = IF r.raised = "none" THEN "return"
                                  ELSE r.raised,
                         !.contacted = r.contacted,
                         !.clients = r.clients,
                         !.created = r.n - clients_created]
                  /\ UNCHANGED config

\* get_enabled_tools: the outcome of one call
get_enabled_tools ==
    IF ~initialised
    THEN [NoOp EXCEPT !.op = "get_enabled_tools", !.kind = "RuntimeError",
                      !.value = "Tools not initialised"]
    ELSE [NoOp EXCEPT !.op = "get_enabled_tools",
                      !.snapshot = Range(tools)]

\* ToolRegistry.get_enabled_tools
GetEnabledTools ==
    /\ pc = "idle"
    /\ UNCHANGED loopVars
    /\ UNCHANGED otherVars
    /\ lastOp' = get_enabled_tools
    /\ UNCHANGED <<config, client_cache, clients_created, tools, initialised,
                   discovered, completed>>

\* "\n".join(...) over the text-typed segments
RECURSIVE JoinLines(_)
JoinLines(ss) ==
    IF Len(ss) = 0 THEN ""
    ELSE IF Len(ss) = 1 THEN ss[1]
    ELSE ss[1] \o "\n" \o JoinLines(Tail(ss))

IsText(x) == x.type = "text"

TextOf(segs) == [i \in 1..Len(segs) |-> segs[i].text]

result_text(segs) == JoinLines(TextOf(SelectSeq(segs, IsText)))

\* the exceptions _run_tool turns into the empty result
run_tool_swallows(status) == status = "ProcessLookupError"

\* mutant: the tool called without a look at the listing
still_advertised_unchecked(tool, listed) == TRUE

\* "any(t.name == tool.name for t in tools)"
still_advertised(tool, listed) == tool.name \in listed

\* _run_tool: open the cached client, list, call if still advertised
run_tool(tool, conn) ==
    LET sid == config[tool.server].id
        failure == IF conn.listing.status /= "ok" THEN conn.listing.status
                   ELSE IF still_advertised(tool, conn.listing.tools)
                           /\ conn.call.status /= "ok"
                   THEN conn.call.status
                   ELSE "none"
        base == [NoOp EXCEPT !.op = "execute_tool", !.contacted = <<sid>>,
                             !.clients = <<client_cache[sid]>>,
                             !.failure = failure, !.tool = tool.name,
                             !.listed = conn.listing]
    IN  IF conn.listing.status /= "ok"
        THEN IF run_tool_swallows(conn.listing.status)
             THEN base
             ELSE [base EXCEPT !.kind = "Error"]
        ELSE IF ~still_advertised(tool, conn.listing.tools)
        THEN base
        ELSE IF conn.call.status /= "ok"
        THEN IF run_tool_swallows(conn.call.status)
             THEN [base EXCEPT !.invoked = TRUE]
             ELSE [base EXCEPT !.invoked = TRUE, !.kind = "Error"]
        ELSE [base EXCEPT !.invoked = TRUE,
                          !.value = result_text(conn.call.segs)]

\* mutant: execute_tool without its "if not self._initialised" check
execute_tool_unguarded(tool_name, conn) ==
    IF tool_name \notin DOMAIN tools
    THEN [NoOp EXCEPT !.op = "execute_tool", !.kind = "ValueError",
                      !.value = "Unknown tool"]
    ELSE run_tool(tools[tool_name], conn)

\* execute_tool: the outcome of one call
execute_tool(tool_name, conn) ==
    IF ~initialised
    THEN [NoOp EXCEPT !.op = "execute_tool", !.kind = "RuntimeError",
                      !.value = "Tools not initialised"]
    ELSE IF tool_name \notin DOMAIN tools
    THEN [NoOp EXCEPT !.op = "execute_tool", !.kind = "ValueError",
                      !.value = "Unknown tool"]
    ELSE run_tool(tools[tool_name], conn)

\* ToolRegistry.execute_tool
ExecuteTool ==
    /\ pc = "idle"
    /\ UNCHANGED loopVars
    /\ UNCHANGED otherVars
    /\ \E tool_name \in ToolNames \cup {BogusName}, conn \in RegistryConns :
        /\ lastOp' = execute_tool(tool_name, conn)
        /\ UNCHANGED <<config, client_cache, clients_created, tools,
                       initialised, discovered, completed>>


\* ------------------------------------------------------------------------
\* Chat page (view_chat.py)
\* ------------------------------------------------------------------------

\* "turns = 20  # limit tool-calling turns for safety"
TurnLimit == 20

\* bounds of the chat page
MaxMsgs == 2       \* user input is accepted while the chat is shorter (Spec)
MaxChunks == 2     \* chunks one stream delivers (Spec)
MaxCalls == 2      \* tool_use blocks the provider emits in one behaviour (Spec)
MaxSubmits == 2    \* prompts the user submits in one behaviour (SpecRetrigger)

Msg(type, id, name, body) ==
    [type |-> type, id |-> id, name |-> name, body |-> body]

SystemMessage == Msg("SystemMessage", 0, "", "system prompt")
UserMessage(m) == Msg("UserMessage", 0, "", m)
AssistantMessage(m) == Msg("AssistantMessage", 0, "", m)
IncludedFile(name) == Msg("IncludedFile", 0, name, "data")
IncludedImage(name) == Msg("IncludedImage", 0, name, "path")
ToolCallMessage(id, name) == Msg("ToolCallMessage", id, name, "{}")
ToolResultMessage(id, name, result) ==
    Msg("ToolResultMessage", id, name, result)

\* MessageChunk.content values; a stream of MaxChunks of them stays below
\* the 60 characters at which stream_model_response flushes its buffer, so
\* write_stream returns their concatenation
Contents == {"", "Hi"}

\* MessageChunk: content and tool_call (0: None, else the name asked for)
Chunks == [content : Contents, tool_call : {"", "search", BogusName}]

\* bookkeeping of one generate_assistant_message call
\* (turn_base: the length of the conversation when the turn began; exec_log:
\* the execute_tool calls of the turn; error_seen, at_error: a stream of this
\* call has raised, and the conversation at that moment)
NoRun == [outcome |-> "none", chat_calls |-> 0, base |-> 0, first_id |-> 0,
          stream_failed |-> FALSE, executed |-> 0, turn_base |-> 0,
          exec_log |-> <<>>, error_seen |-> FALSE, at_error |-> <<>>]

\* new_chat, and the page before the first prompt
PageInit ==
    /\ messages = <<SystemMessage>>
    /\ generate_assistant = FALSE
    /\ pc = "idle"
    /\ turns = 0
    /\ tool_acc = <<>>
    /\ tool_idx = 1
    /\ text = ""
    /\ chunks = 0
    /\ next_id = 1
    /\ run = NoRun

\* what the user attaches to a prompt
FileSets == {<<>>, <<"notes.txt">>, <<"cat.png">>}

IsImage(f) == f = "cat.png"

\* _insert_image_chat_message / _insert_file_chat_message per uploaded file
inserted_files(files) ==
    [i \in 1..Len(files) |->
        IF IsImage(files[i]) THEN IncludedImage(files[i])
        ELSE IncludedFile(files[i])]

\* _handle_submit_prompt
submit_prompt(files, prompt) ==
    /\ pc = "idle"
    /\ ~generate_assistant
    /\ LET withFiles == messages \o inserted_files(files)
       IN  IF prompt = ""
           THEN /\ messages' = withFiles
                /\ UNCHANGED generate_assistant
           ELSE IF prompt = "/include notes.txt"
           THEN /\ messages' = Append(withFiles, IncludedFile("notes.txt"))
                /\ UNCHANGED generate_assistant
           ELSE /\ messages' = Append(withFiles, UserMessage(prompt))
                /\ generate_assistant' = TRUE
    /\ UNCHANGED <<pc, turns, tool_acc, tool_idx, text, chunks, next_id, run>>
    /\ UNCHANGED regVars
    /\ UNCHANGED otherVars

SubmitPrompt ==
    /\ Len(messages) < MaxMsgs
    /\ \E files \in FileSets, prompt \in {"", "hello", "/include notes.txt"} :
         /\ prompt = "" => files /= <<>>
         /\ submit_prompt(files, prompt)

\* main: "if _s.generate_assistant", then generate_assistant_message up to
\* its loop; the entrypoint has run initialise_tools before main
StartGenerate ==
    /\ pc = "idle"
    /\ generate_assistant
    /\ initialised
    /\ generate_assistant' = FALSE
    /\ turns' = TurnLimit
    /\ pc' = "loop"
    /\ run' = [NoRun EXCEPT !.outcome = "running", !.base = Len(messages),
                            !.first_id = next_id]
    /\ UNCHANGED <<messages, tool_acc, tool_idx, text, chunks, next_id>>
    /\ UNCHANGED regVars
    /\ UNCHANGED otherVars

\* mutant: the loop left one turn early
loop_exhausted_early(t) == t <= 1

\* "while turns:" is false
loop_exhausted(t) == t = 0

\* "while turns:" - leave the loop, or start a turn: turns -= 1, a new
\* tool_acc, and stream_model_response up to the chat() call
BeginTurn ==
    /\ pc = "loop"
    /\ IF loop_exhausted(turns)
       THEN /\ pc' = "idle"
            /\ run' = [run EXCEPT !.outcome = "returned"]
            /\ UNCHANGED <<turns, tool_acc, tool_idx, text, chunks, lastOp>>
       ELSE /\ turns' = turns - 1
            /\ tool_acc' = <<>>
            /\ tool_idx' = 1
            /\ text' = ""
            /\ chunks' = 0
            /\ lastOp' = get_enabled_tools
            /\ IF get_enabled_tools.kind = "return"
               THEN /\ pc' = "stream"
                    /\ run' = [run EXCEPT !.chat_calls = @ + 1,
                                          !.stream_failed = FALSE,
                                          !.turn_base = Len(messages),
                                          !.exec_log = <<>>]
               ELSE /\ pc' = "tools"
                    /\ run' = [run EXCEPT !.stream_failed = TRUE,
                                          !.turn_base = Len(messages),
                                          !.exec_log = <<>>]
    /\ UNCHANGED <<messages, generate_assistant, next_id>>
    /\ UNCHANGED <<config, client_cache, clients_created, tools, initialised,
                   discovered, completed>>
    /\ UNCHANGED otherVars

\* one iteration of "for chunk in response" in stream_model_response
recv_chunk(chunk) ==
    /\ pc = "stream"
    /\ chunks < MaxChunks
    /\ chunks' = chunks + 1
    /\ text' = text \o chunk.content
    /\ IF chunk.tool_call /= ""
       THEN /\ tool_acc' = Append(tool_acc,
                               ToolCallMessage(next_id, chunk.tool_call))
            /\ next_id' = next_id + 1
       ELSE UNCHANGED <<tool_acc, next_id>>
    /\ UNCHANGED <<messages, generate_assistant, pc, turns, tool_idx, run>>
    /\ UNCHANGED regVars
    /\ UNCHANGED otherVars

RecvChunk ==
    \E chunk \in Chunks :
        /\ chunk.tool_call /= "" => next_id <= MaxCalls
        /\ recv_chunk(chunk)

\* mutant: the AssistantMessage is appended whatever m is
assistant_messages_always(m) == <<AssistantMessage(m)>>

\* "if m: _s.chat.messages.append(AssistantMessage(message=m))"
assistant_messages(m) == IF m /= "" THEN <<AssistantMessage(m)>> ELSE <<>>

\* the stream ends: st.write_stream returns m, appended when not empty
StreamEnd ==
    /\ pc = "stream"
    /\ messages' = messages \o assistant_messages(text)
    /\ pc' = "tools"
    /\ UNCHANGED <<generate_assistant, turns, tool_acc, tool_idx, text,
                   chunks, next_id, run>>
    /\ UNCHANGED regVars
    /\ UNCHANGED otherVars

\* mutant: the handler drops what the invocation had appended
messages_after_error_rolled_back(msgs) == SubSeq(msgs, 1, run.base)

\* the conversation after the "except Exception" block, which reports the
\* error and leaves _s.chat.messages alone
messages_after_error(msgs) == msgs

\* the provider raises while the stream is read: "except Exception as e"
StreamError ==
    /\ pc = "stream"
    /\ pc' = "tools"
    /\ messages' = messages_after_error(messages)
    /\ run' = [run EXCEPT !.stream_failed = TRUE, !.error_seen = TRUE,
                          !.at_error = messages]
    /\ UNCHANGED <<generate_assistant, turns, tool_acc, tool_idx,
                   text, chunks, next_id>>
    /\ UNCHANGED regVars
    /\ UNCHANGED otherVars

\* mutant: only the result is appended
tool_messages_result_only(tool_call, r) ==
    IF r.kind = "return"
    THEN <<ToolResultMessage(tool_call.id, tool_call.name, r.value)>>
    ELSE <<>>

\* mutant: the call is appended before execute_tool runs
tool_messages_call_first(tool_call, r) ==
    IF r.kind = "return"
    THEN <<tool_call, ToolResultMessage(tool_call.id, tool_call.name, r.value)>>
    ELSE <<tool_call>>

\* what one iteration of "for tool_call in tool_acc" appends
tool_messages(tool_call, r) ==
    IF r.kind = "return"
    THEN <<tool_call, ToolResultMessage(tool_call.id, tool_call.name, r.value)>>
    ELSE <<>>

\* mutant: the accumulated calls are taken last first
next_tool_call_reversed(acc, idx) == acc[Len(acc) + 1 - idx]

\* "for tool_call in tool_acc": the call of iteration idx
next_tool_call(acc, idx) == acc[idx]

\* mutant: the for loop without its except clause
loop_catches_nothing(kind) == FALSE

\* "except ValueError as ex: logger.error(...)" around execute_tool
loop_catches(kind) == kind = "ValueError"

\* one iteration of "for tool_call in tool_acc"
exec_tool(conn) ==
    /\ pc = "tools"
    /\ tool_idx <= Len(tool_acc)
    /\ LET tool_call == next_tool_call(tool_acc, tool_idx)
           r == execute_tool(tool_call.name, conn)
           log == Append(run.exec_log, [id |-> tool_call.id, kind |-> r.kind])
       IN  /\ lastOp' = r
           /\ messages' = messages \o tool_messages(tool_call, r)
           /\ IF r.kind = "return" \/ loop_catches(r.kind)
              THEN /\ tool_idx' = tool_idx + 1
                   /\ run' = [run EXCEPT !.executed = @ + 1,
                                         !.exec_log = log]
                   /\ UNCHANGED pc
              ELSE \* the exception leaves generate_assistant_message; main
                   \* catches it
                   /\ pc' = "idle"
                   /\ run' = [run EXCEPT !.outcome = "raised",
                                         !.executed = @ + 1,
                                         !.exec_log = log]
                   /\ UNCHANGED tool_idx
    /\ UNCHANGED <<generate_assistant, turns, tool_acc, text, chunks, next_id>>
    /\ UNCHANGED <<config, client_cache, clients_created, tools, initialised,
                   discovered, completed>>
    /\ UNCHANGED otherVars

\* the connection behaviours the chat page is explored with
PageConns ==
    LET up == [status |-> "ok", tools |-> {"search"}]
        gone == [status |-> "ok", tools |-> {}]
    IN  {[listing |-> up, call |-> [status |-> "ok", segs |-> <<TextSeg("4")>>]],
         [listing |-> gone, call |-> NoCall],
         [listing |-> [status |-> "ProcessLookupError", tools |-> {}],
          call |-> NoCall],
         [listing |-> [status |-> "Error", tools |-> {}], call |-> NoCall]}

ExecTool == \E conn \in PageConns : exec_tool(conn)

\* after the for loop: save_current_chat, then "if tool_use: continue"
EndTurn ==
    /\ pc = "tools"
    /\ tool_idx > Len(tool_acc)
    /\ LET tool_use == Len(tool_acc) > 0
       IN  IF tool_use
           THEN /\ pc' = "loop"
                /\ UNCHANGED run
           ELSE /\ pc' = "idle"
                /\ run' = [run EXCEPT !.outcome = "returned"]
    /\ UNCHANGED <<messages, generate_assistant, turns, tool_acc, tool_idx,
                   text, chunks, next_id>>
    /\ UNCHANGED regVars
    /\ UNCHANGED otherVars

\* ------------------------------------------------------------------------
\* stream_model_response and its consumer (view_chat.py)
\* ------------------------------------------------------------------------

\* "len(chunkier_chunk) > 60"
FlushLen == 60

\* "wait_n_and_chain(2, ...)"
WaitN == 2

\* chunks one stream delivers (SpecStream)
MaxStream == 3

\* text is a sequence of characters; a piece of plain text that is longer
\* than the flush threshold
Filler == [i \in 1..(FlushLen + 1) |-> "x"]

\* MessageChunk.content values: empty, plain, a LaTeX fence, the two halves
\* of a fence, and a long piece
StreamContents ==
    {<<>>, <<"a">>, <<"\\", "[">>, <<"\\">>, <<"]">>, Filler}

\* MessageChunk as stream_model_response reads it: content, whether a
\* tool_call is attached, whether a finish_reason and token counts are
StreamChunks ==
    [content : StreamContents, tool_call : BOOLEAN, finish_reason : BOOLEAN]

NoStream == [state |-> "idle", chunkier_chunk |-> <<>>, yielded |-> <<>>,
             received |-> <<>>, tool_acc |-> 0, finished |-> FALSE,
             n |-> 0, m |-> <<>>]

\* no stream_model_response generator exists
StreamIdle == stream = NoStream

\* stream_model_response has called chat() and set chunkier_chunk = ""
StreamInit == stream = [NoStream EXCEPT !.state = "open"]

\* str.replace(old, new): the leftmost occurrence is replaced, then the
\* occurrences in what follows it
RECURSIVE Replace(_, _, _)
Replace(s, old, new) ==
    LET hits == {i \in 1..(Len(s) - Len(old) + 1) :
                    SubSeq(s, i, i + Len(old) - 1) = old}
    IN  IF hits = {} THEN s
        ELSE LET i == CHOOSE i \in hits : \A j \in hits : i <= j
             IN  SubSeq(s, 1, i - 1) \o new
                 \o Replace(SubSeq(s, i + Len(old), Len(s)), old, new)

Dollars == <<"$", "$">>

\* openai_math_markup: the four fences become $$
openai_math_markup(s) ==
    Replace(Replace(Replace(Replace(s, <<"\\", "[">>, Dollars),
                            <<"\\", "]">>, Dollars),
                    <<"\\", "(">>, Dollars),
            <<"\\", ")">>, Dollars)

post_process_chunk(s) == openai_math_markup(s)

\* "not chunkier_chunk.endswith("\\") and len(chunkier_chunk) > 60"
flush_due(buf) ==
    /\ ~(Len(buf) > 0 /\ buf[Len(buf)] = "\\")
    /\ Len(buf) > FlushLen

\* mutant: the buffer is not emptied after it was yielded
buffer_after_kept(buf) == buf

\* "chunkier_chunk = """ after the yield
buffer_after(buf) == IF flush_due(buf) THEN <<>> ELSE buf

\* one iteration of "for chunk in response" in stream_model_response
stream_chunk(st, chunk) ==
    LET buf == st.chunkier_chunk \o chunk.content
    IN  [st EXCEPT
            !.n = @ + 1,
            !.received = @ \o chunk.content,
            !.finished = @ \/ chunk.finish_reason,
            !.tool_acc = IF chunk.tool_call THEN @ + 1 ELSE @,
            !.yielded = IF flush_due(buf)
                        THEN Append(@, post_process_chunk(buf)) ELSE @,
            !.chunkier_chunk = buffer_after(buf)]

StreamChunk ==
    /\ stream.state = "open"
    /\ stream.n < MaxStream
    /\ \E chunk \in StreamChunks : stream' = stream_chunk(stream, chunk)
    /\ UNCHANGED <<regVars, loopVars, threads, tool_writes, gateway,
                   adaptor, request>>

\* wait_n_and_chain: the first n items are taken, then chained in front of
\* the rest
wait_n_and_chain(n, g) ==
    LET k == IF Len(g) < n THEN Len(g) ELSE n
    IN  SubSeq(g, 1, k) \o SubSeq(g, k + 1, Len(g))

\* st.write_stream returns the strings it was given, joined
RECURSIVE write_stream(_)
write_stream(g) ==
    IF g = <<>> THEN <<>> ELSE Head(g) \o write_stream(Tail(g))

\* the response is exhausted: "yield chunkier_chunk", and write_stream
\* returns m
StreamExhausted ==
    /\ stream.state = "open"
    /\ stream' = [stream EXCEPT
           !.state = "closed",
           !.yielded = Append(@, stream.chunkier_chunk),
           !.chunkier_chunk = <<>>,
           !.m = write_stream(wait_n_and_chain(WaitN,
                     Append(stream.yielded, stream.chunkier_chunk)))]
    /\ UNCHANGED <<regVars, loopVars, threads, tool_writes, gateway,
                   adaptor, request>>

\* ------------------------------------------------------------------------
\* The registry called from several threads (tools.py)
\* ------------------------------------------------------------------------

\* the script threads that share the one ToolRegistry
NumThreads == 2

\* registry calls one thread makes (SpecThreads)
MaxThreadOps == 2

Threads == 1..NumThreads

NoLast == [op |-> "none", kind |-> "none", value |-> "", snapshot |-> {}]

\* a thread outside the registry, with no coroutine on the worker
IdleThread ==
    [pc |-> "idle", op |-> "none", ops |-> 0, i |-> 1, new_tools |-> <<>>,
     seen_tools |-> {}, tool |-> "", server |-> 0, task |-> "none",
     client |-> 0,
     result |-> [status |-> "ok", tools |-> {}, segs |-> <<>>],
     last |-> NoLast]

ThreadsIdle ==
    /\ threads = [t \in Threads |-> IdleThread]
    /\ tool_writes = <<>>

\* what a server answers while a coroutine is suspended on it
ThreadListings == {[status |-> "ok", tools |-> {"search"}],
                   [status |-> "Error", tools |-> {}]}

ThreadCalls == {[status |-> "ok", segs |-> <<TextSeg("4")>>],
                [status |-> "Error", segs |-> <<>>]}

\* the thread returns from (or raises out of) its registry call
returned(th, kind, value, snapshot) ==
    [th EXCEPT !.pc = "idle", !.task = "none",
               !.last = [op |-> th.op, kind |-> kind, value |-> value,
                         snapshot |-> snapshot]]

\* AsyncWorker.submit: the coroutine, made for config entry k, is handed to
\* the worker's loop and the thread blocks in future.result()
submit(th, k) ==
    [th EXCEPT !.pc = "waiting", !.task = "pending", !.client = 0,
               !.server = k]

\* "for n, s in mcp_servers.items()": the next server, or the end of the
\* generator and of the loop of initialise_tools
next_server(th) ==
    IF th.i > Len(config) THEN [th EXCEPT !.pc = "write"]
    ELSE [th EXCEPT !.pc = "client"]

\* initialise_tools is entered: "if self._initialised: return"
ThreadInitialise(t) ==
    /\ threads[t].pc = "idle"
    /\ threads[t].ops < MaxThreadOps
    /\ LET th == [threads[t] EXCEPT !.op = "initialise_tools", !.ops = @ + 1]
       IN  threads' = [threads EXCEPT ![t] =
              IF initialised
              THEN returned(th, "return", "", {})
              ELSE next_server([th EXCEPT !.i = 1, !.new_tools = <<>>,
                                          !.seen_tools = {}])]
    /\ UNCHANGED <<regVars, loopVars, stream, tool_writes, gateway, adaptor, request>>

\* _get_client_sync: "if server.id not in self._client_cache"
ThreadClientCheck(t) ==
    /\ threads[t].pc = "client"
    /\ threads' = [threads EXCEPT ![t] =
          IF client_cache[config[threads[t].i].id] = 0
          THEN [@ EXCEPT !.pc = "create"]
          ELSE submit(@, threads[t].i)]
    /\ UNCHANGED <<regVars, loopVars, stream, tool_writes, gateway, adaptor, request>>

\* _get_client_sync: the Client is constructed and stored, then
\* _get_available_tools submits _list_tools
ThreadClientCreate(t) ==
    /\ threads[t].pc = "create"
    /\ clients_created' = clients_created + 1
    /\ client_cache' = [client_cache EXCEPT
                           ![config[threads[t].i].id] = clients_created + 1]
    /\ threads' = [threads EXCEPT ![t] = submit(@, threads[t].i)]
    /\ UNCHANGED <<config, tools, initialised, lastOp, discovered, completed>>
    /\ UNCHANGED <<loopVars, stream, tool_writes, gateway, adaptor, request>>

\* the server a thread's coroutine talks to: "server" of _list_tools,
\* "tool.server" of _run_tool
server_of(th) == config[th.server]

\* the worker's loop starts the coroutine: it reads the cached client and
\* suspends in "async with client"
WorkerStart(t) ==
    /\ threads[t].task = "pending"
    /\ threads' = [threads EXCEPT ![t] =
          [@ EXCEPT !.task = "entering",
                    !.client = client_cache[server_of(threads[t]).id]]]
    /\ UNCHANGED <<regVars, loopVars, stream, tool_writes, gateway, adaptor, request>>

\* how a coroutine ends with exception status: _list_tools catches it,
\* _run_tool swallows ProcessLookupError only
failed(th, status) ==
    [th EXCEPT !.task = "done",
               !.result = [status |-> status, tools |-> {}, segs |-> <<>>]]

\* the connection is up (or could not be made): "await client.list_tools()"
WorkerConnected(t) ==
    /\ threads[t].task = "entering"
    /\ \E up \in BOOLEAN :
          threads' = [threads EXCEPT ![t] =
              IF up THEN [@ EXCEPT !.task = "listing"]
              ELSE failed(@, "Error")]
    /\ UNCHANGED <<regVars, loopVars, stream, tool_writes, gateway, adaptor, request>>

\* the listing has arrived: _list_tools leaves the context and returns it,
\* _run_tool goes on to "await client.call_tool" when the tool is listed
WorkerListed(t) ==
    /\ threads[t].task = "listing"
    /\ \E l \in ThreadListings :
          threads' = [threads EXCEPT ![t] =
              IF l.status /= "ok" THEN failed(@, l.status)
              ELSE IF @.op = "execute_tool" /\ @.tool \in l.tools
              THEN [@ EXCEPT !.task = "calling"]
              ELSE [@ EXCEPT !.task = "done",
                             !.result = [status |-> "ok", tools |-> l.tools,
                                         segs |-> <<>>]]]
    /\ UNCHANGED <<regVars, loopVars, stream, tool_writes, gateway, adaptor, request>>

\* the tool's result has arrived: _run_tool leaves the context
WorkerCalled(t) ==
    /\ threads[t].task = "calling"
    /\ \E c \in ThreadCalls :
          threads' = [threads EXCEPT ![t] =
              IF c.status /= "ok" THEN failed(@, c.status)
              ELSE [@ EXCEPT !.task = "done",
                             !.result = [status |-> "ok", tools |-> {},
                                         segs |-> c.segs]]]
    /\ UNCHANGED <<regVars, loopVars, stream, tool_writes, gateway, adaptor, request>>

\* future.result() returns to the thread: the rest of _get_available_tools
\* and of the iteration of _iterate_enabled_tools, or of execute_tool
ThreadResume(t) ==
    /\ threads[t].pc = "waiting"
    /\ threads[t].task = "done"
    /\ LET th == threads[t]
           r == th.result
       IN  threads' = [threads EXCEPT ![t] =
              IF th.op = "initialise_tools"
              THEN LET available_tools == get_available_tools(th.i, r)
                       names == {x.name : x \in available_tools}
                   IN  IF r.status /= "ok" /\ ~list_tools_catches(r.status)
                       THEN returned(th, r.status, "", {})
                       ELSE IF duplicate_seen(names, th.seen_tools)
                       THEN returned(th, "ValueError", "", {})
                       ELSE next_server(
                              [th EXCEPT
                                 !.task = "none",
                                 !.seen_tools = @ \cup names,
                                 !.new_tools = add_tools(@,
                                     enabled_of(config[th.i], available_tools)),
                                 !.i = @ + 1])
              ELSE IF r.status = "ok" \/ run_tool_swallows(r.status)
              THEN returned(th, "return", result_text(r.segs), {})
              ELSE returned(th, r.status, "", {})]
    /\ UNCHANGED <<regVars, loopVars, stream, tool_writes, gateway, adaptor, request>>

\* "with self._tools_lock: self.tools = new_tools"
ThreadWrite(t) ==
    /\ threads[t].pc = "write"
    /\ tools' = threads[t].new_tools
    /\ tool_writes' = Append(tool_writes, threads[t].new_tools)
    /\ threads' = [threads EXCEPT ![t] = [@ EXCEPT !.pc = "set"]]
    /\ UNCHANGED <<config, client_cache, clients_created, initialised, lastOp,
                   discovered, completed>>
    /\ UNCHANGED <<loopVars, stream, gateway, adaptor, request>>

\* "self._initialised = True"
ThreadSetInitialised(t) ==
    /\ threads[t].pc = "set"
    /\ initialised' = TRUE
    /\ threads' = [threads EXCEPT ![t] = returned(@, "return", "", {})]
    /\ UNCHANGED <<config, client_cache, clients_created, tools, lastOp,
                   discovered, completed>>
    /\ UNCHANGED <<loopVars, stream, tool_writes, gateway, adaptor, request>>

\* get_enabled_tools is entered: "if not self._initialised"
ThreadGetEnabled(t) ==
    /\ threads[t].pc = "idle"
    /\ threads[t].ops < MaxThreadOps
    /\ LET th == [threads[t] EXCEPT !.op = "get_enabled_tools", !.ops = @ + 1]
       IN  threads' = [threads EXCEPT ![t] =
              IF ~initialised
              THEN returned(th, "RuntimeError", "Tools not initialised", {})
              ELSE [th EXCEPT !.pc = "read"]]
    /\ UNCHANGED <<regVars, loopVars, stream, tool_writes, gateway, adaptor, request>>

\* "with self._tools_lock: for tool in self.tools.values()"
ThreadRead(t) ==
    /\ threads[t].pc = "read"
    /\ threads' = [threads EXCEPT ![t] = returned(@, "return", "", Range(tools))]
    /\ UNCHANGED <<regVars, loopVars, stream, tool_writes, gateway, adaptor, request>>

\* execute_tool is entered: "if not self._initialised"
ThreadExecute(t) ==
    /\ threads[t].pc = "idle"
    /\ threads[t].ops < MaxThreadOps
    /\ \E tool_name \in {"search", BogusName} :
        LET th == [threads[t] EXCEPT !.op = "execute_tool", !.ops = @ + 1,
                                     !.tool = tool_name]
        IN  threads' = [threads EXCEPT ![t] =
               IF ~initialised
               THEN returned(th, "RuntimeError", "Tools not initialised", {})
               ELSE [th EXCEPT !.pc = "lookup"]]
    /\ UNCHANGED <<regVars, loopVars, stream, tool_writes, gateway, adaptor, request>>

\* _get_tool under the lock, then "self.worker.submit(self._run_tool(...))"
ThreadLookup(t) ==
    /\ threads[t].pc = "lookup"
    /\ threads' = [threads EXCEPT ![t] =
          IF @.tool \notin DOMAIN tools
          THEN returned(@, "ValueError", "Unknown tool", {})
          ELSE submit(@, tools[threads[t].tool].server)]
    /\ UNCHANGED <<regVars, loopVars, stream, tool_writes, gateway, adaptor, request>>

\* ------------------------------------------------------------------------
\* ChatGateway (chatgateway/chatgateway.py)
\* ------------------------------------------------------------------------

\* chunks one adaptor stream delivers (SpecGateway)
MaxGatewayChunks == 2

\* the adaptors in the order __init__ probes them
Adaptors == <<"ollama", "anthropic", "watsonx", "openai">>

AnthropicModels ==
    <<"claude-opus-4-20250514", "claude-sonnet-4-20250514",
      "claude-3-7-sonnet-latest", "claude-3-5-sonnet-latest",
      "claude-3-5-haiku-latest">>

WatsonxModels ==
    <<"ibm/granite-3-8b-instruct", "meta-llama/llama-3-3-70b-instruct",
      "mistralai/mistral-medium-2505">>

OpenAIModels ==
    <<"gpt-4.1", "gpt-4.1-mini", "gpt-4.1-nano", "gpt-4o-mini", "gpt-4o">>

\* what the local Ollama server may have installed
OllamaModels == {<<>>, <<"llama3">>, <<"gpt-4o", "llama3">>}

\* the model lists an adaptor can come up with
models_of(a) ==
    IF a = "ollama" THEN OllamaModels
    ELSE IF a = "anthropic" THEN {AnthropicModels}
    ELSE IF a = "watsonx" THEN {WatsonxModels}
    ELSE {OpenAIModels}

\* the way the constructor of an adaptor fails: Ollama is not running, or
\* the API key of the provider is not in the environment
failure_of(a) ==
    IF a = "ollama" THEN "ConnectionError" ELSE "MissingEnvVarException"

\* the outcomes of constructing adaptor a
ProbeOutcomes(a) ==
    {[status |-> "ok", models |-> ms] : ms \in models_of(a)}
    \cup {[status |-> failure_of(a), models |-> <<>>]}

\* mutant: every probe catching MissingEnvVarException only
probe_catches_env_only(a, status) == status = "MissingEnvVarException"

\* the except clause around the probe of adaptor a
probe_catches(a, status) ==
    IF a = "ollama" THEN status = "ConnectionError"
    ELSE status = "MissingEnvVarException"

\* "for m in oa.list(): self.model_to_client[m] = oa"
register(mapping, ms, a) ==
    [m \in DOMAIN mapping \cup Range(ms) |->
        IF m \in Range(ms) THEN a ELSE mapping[m]]

NoChat == [kind |-> "none", model |-> "", sent |-> <<>>, raises |-> FALSE,
           chunks |-> <<>>, called |-> "none"]

NoGateway == [state |-> "none", models |-> <<>>, model_to_client |-> <<>>,
              probes |-> <<>>, chat |-> NoChat]

\* no ChatGateway has been constructed
GatewayUnbuilt == gateway = NoGateway

\* ChatGateway.__init__ from probe k on
RECURSIVE gateway_init(_, _, _)
gateway_init(g, outcomes, k) ==
    IF k > Len(Adaptors) THEN [g EXCEPT !.state = "built"]
    ELSE LET a == Adaptors[k]
             o == outcomes[k]
         IN  IF o.status = "ok"
             THEN gateway_init(
                    [g EXCEPT !.models = @ \o o.models,
                              !.model_to_client = register(@, o.models, a)],
                    outcomes, k + 1)
             ELSE IF probe_catches(a, o.status)
             THEN gateway_init(g, outcomes, k + 1)
             ELSE [g EXCEPT !.state = o.status]

\* ChatGateway()
GatewayConstruct ==
    /\ gateway.state = "none"
    /\ \E outcomes \in [1..Len(Adaptors) -> UNION {ProbeOutcomes(Adaptors[k]) :
                                                    k \in 1..Len(Adaptors)}] :
          /\ \A k \in 1..Len(Adaptors) :
                outcomes[k] \in ProbeOutcomes(Adaptors[k])
          /\ gateway' = gateway_init([NoGateway EXCEPT !.probes = outcomes],
                                     outcomes, 1)
    /\ UNCHANGED <<regVars, loopVars, stream, threads, tool_writes,
                   adaptor, request>>

\* the chunks an adaptor's chat() yields
GatewayChunks == {"c1", "c2"}

RECURSIVE SeqsUpTo(_, _)
SeqsUpTo(S, n) ==
    IF n = 0 THEN {<<>>}
    ELSE SeqsUpTo(S, n - 1)
         \cup {Append(q, x) : q \in {p \in SeqsUpTo(S, n - 1) : Len(p) = n - 1},
                              x \in S}

\* an adaptor's stream: its chunks, and whether it raises after them
AdaptorStreams ==
    [chunks : SeqsUpTo(GatewayChunks, MaxGatewayChunks), raises : BOOLEAN]

\* the names chat() is called with
ChatModels ==
    {"llama3", "gpt-4o", "claude-3-5-haiku-latest",
     "ibm/granite-3-8b-instruct", "no-such-model"}

\* mutant: the first chunk of the adaptor is swallowed
forward_chunks_late(response) ==
    IF response = <<>> THEN <<>> ELSE Tail(response)

\* "for chunk in response: yield chunk"
RECURSIVE forward_chunks(_)
forward_chunks(response) ==
    IF response = <<>> THEN <<>>
    ELSE <<Head(response)>> \o forward_chunks(Tail(response))

\* ChatGateway.chat, consumed to its end
chat(g, model, response) ==
    LET call == [NoChat EXCEPT !.model = model, !.sent = response.chunks,
                               !.raises = response.raises]
    IN  IF model \notin DOMAIN g.model_to_client
        THEN [call EXCEPT !.kind = "KeyError"]
        ELSE [call EXCEPT
                 !.called = g.model_to_client[model],
                 !.chunks = forward_chunks(response.chunks),
                 !.kind = IF response.raises THEN "Error" ELSE "return"]

GatewayChat ==
    /\ gateway.state = "built"
    /\ \E model \in ChatModels, response \in AdaptorStreams :
          gateway' = [gateway EXCEPT !.chat = chat(gateway, model, response)]
    /\ UNCHANGED <<regVars, loopVars, stream, threads, tool_writes,
                   adaptor, request>>

\* ------------------------------------------------------------------------
\* The provider adaptors (chatgateway/anthropic.py, openai.py, watsonx.py,
\* ollama.py, common.py)
\* ------------------------------------------------------------------------

\* messages a conversation has after its system prompt (SpecRequest)
MaxConv == 4

Providers == {"anthropic", "openai", "watsonx", "ollama"}

\* supports_images of the adaptors
supports_images(provider) == provider \in {"anthropic", "openai"}

\* the messages _handle_submit_prompt and generate_assistant_message append
ConvMessages ==
    {UserMessage("hello"), AssistantMessage("Hi"), AssistantMessage(""),
     IncludedFile("notes.txt"), IncludedImage("cat.png"),
     ToolCallMessage(1, "search"), ToolResultMessage(1, "search", "4")}

\* the conversations chat() is called with: the system prompt of new_chat,
\* then what was appended; a tool result stands behind its call, and the
\* user has submitted a prompt
Conversations ==
    {<<SystemMessage>> \o c : c \in
        {c \in SeqsUpTo(ConvMessages, MaxConv) :
            /\ \E i \in DOMAIN c : c[i].type = "UserMessage"
            /\ \A i \in DOMAIN c :
                  /\ c[i].type = "ToolCallMessage" =>
                        i < Len(c) /\ c[i + 1].type = "ToolResultMessage"
                  /\ c[i].type = "ToolResultMessage" =>
                        i > 1 /\ c[i - 1].type = "ToolCallMessage"}}

\* the elements of a set of numbers in ascending order
RECURSIVE Ascending(_)
Ascending(S) ==
    IF S = {} THEN <<>>
    ELSE LET least == CHOOSE x \in S : \A y \in S : x <= y
         IN  <<least>> \o Ascending(S \ {least})

\* "[m for m in messages if isinstance(m, ...)]", as positions
positions_of(msgs, types) ==
    Ascending({i \in DOMAIN msgs : msgs[i].type \in types})

\* one entry of a request: its role, what it carries (text, file, image,
\* tool_use, tool_result) and the conversation positions it was made from
Entry(role, kind, srcs) == [role |-> role, kind |-> kind, srcs |-> srcs]

role_of(m) ==
    IF m.type = "SystemMessage" THEN "system"
    ELSE IF m.type \in {"AssistantMessage", "ToolCallMessage"}
    THEN "assistant" ELSE "user"

\* mutant: the chat part of the shared projection taking images along
common_chat_types_with_images ==
    {"AssistantMessage", "UserMessage", "IncludedImage"}

\* "isinstance(m, AssistantMessage) or isinstance(m, UserMessage)"
common_chat_types == {"AssistantMessage", "UserMessage"}

\* what an entry made from message m carries
kind_of(m) ==
    IF m.type = "IncludedFile" THEN "file"
    ELSE IF m.type = "IncludedImage" THEN "image"
    ELSE IF m.type = "ToolCallMessage" THEN "tool_use"
    ELSE IF m.type = "ToolResultMessage" THEN "tool_result"
    ELSE "text"

\* common.prepare_messages_for_model (Ollama, watsonx): system, files, chat
prepare_messages_for_model(msgs) ==
    LET entries(ps) ==
            [k \in DOMAIN ps |->
                Entry(role_of(msgs[ps[k]]), kind_of(msgs[ps[k]]), <<ps[k]>>)]
    IN  entries(positions_of(msgs, {"SystemMessage"}))
        \o entries(positions_of(msgs, {"IncludedFile"}))
        \o entries(positions_of(msgs, common_chat_types))

\* the system prompts joined into one entry
joined_system(msgs) ==
    Entry("system", "text", positions_of(msgs, {"SystemMessage"}))

\* OpenAIAdaptor._prepare_messages_for_model: the joined system prompt,
\* then the user, assistant, file and image messages in conversation order
openai_prepare_messages(msgs) ==
    LET ps == positions_of(msgs, {"UserMessage", "AssistantMessage",
                                  "IncludedFile", "IncludedImage"})
    IN  <<joined_system(msgs)>>
        \o [k \in DOMAIN ps |->
               Entry(role_of(msgs[ps[k]]), kind_of(msgs[ps[k]]), <<ps[k]>>)]

\* AnthropicAdaptor._prepare_messages_for_model: the joined system prompt
\* (a separate argument of the request), then every other message in
\* conversation order, an assistant message without text left out
anthropic_prepare_messages(msgs) ==
    LET ps == Ascending({i \in DOMAIN msgs :
                  /\ msgs[i].type /= "SystemMessage"
                  /\ msgs[i].type = "AssistantMessage" => msgs[i].body /= ""})
    IN  <<joined_system(msgs)>>
        \o [k \in DOMAIN ps |->
               Entry(role_of(msgs[ps[k]]), kind_of(msgs[ps[k]]), <<ps[k]>>)]

\* the projection chat() of the provider's adaptor starts with
prepare(provider, msgs) ==
    IF provider = "anthropic" THEN anthropic_prepare_messages(msgs)
    ELSE IF provider = "openai" THEN openai_prepare_messages(msgs)
    ELSE prepare_messages_for_model(msgs)

NoRequest == [state |-> "idle", provider |-> "none", messages |-> <<>>,
              entries |-> <<>>]

\* no request has been built
RequestIdle == request = NoRequest

\* the first lines of an adaptor's chat(): the request for a conversation
PrepareRequest ==
    /\ request.state = "idle"
    /\ \E provider \in Providers, msgs \in Conversations :
          request' = [state |-> "built", provider |-> provider,
                      messages |-> msgs, entries |-> prepare(provider, msgs)]
    /\ UNCHANGED <<regVars, loopVars, stream, threads, tool_writes, gateway,
                   adaptor>>

\* "for m in reversed(_s.chat.messages)": the number of AssistantMessage,
\* ToolCallMessage and ToolResultMessage entries at the end of msgs
RECURSIVE trailing_assistant(_)
trailing_assistant(msgs) ==
    IF msgs = <<>> THEN 0
    ELSE IF msgs[Len(msgs)].type \in
              {"AssistantMessage", "ToolCallMessage", "ToolResultMessage"}
    THEN 1 + trailing_assistant(SubSeq(msgs, 1, Len(msgs) - 1))
    ELSE 0

\* the Python slice msgs[:-i]; -0 is 0, so msgs[:-0] is the empty list
slice_to_minus(msgs, i) ==
    IF i = 0 THEN <<>>
    ELSE IF i >= Len(msgs) THEN <<>>
    ELSE SubSeq(msgs, 1, Len(msgs) - i)

\* _handle_regenerate, the on_click of the Regenerate button
HandleRegenerate ==
    /\ pc = "idle"
    /\ ~generate_assistant
    /\ messages' = slice_to_minus(messages, trailing_assistant(messages))
    /\ generate_assistant' = TRUE
    /\ UNCHANGED <<pc, turns, tool_acc, tool_idx, text, chunks, next_id, run>>
    /\ UNCHANGED regVars
    /\ UNCHANGED otherVars

\* content blocks one Anthropic response has, and deltas one block has
MaxBlocks == 2
MaxDeltas == 2

\* ping events one response has
MaxPings == 1

\* FinishReason, and None for "no finish reason in this chunk"
FinishReasons == {"Stop", "Length", "Other", "None"}

NoToolCall == [id |-> "", name |-> "", parameters |-> {}, set |-> FALSE]

\* ToolCallMessage(id=..., name=..., parameters=...)
ToolCall(id, name, parameters) ==
    [id |-> id, name |-> name, parameters |-> parameters, set |-> TRUE]

MessageChunk(content, finish_reason, tool_call) ==
    [content |-> content, finish_reason |-> finish_reason,
     tool_call |-> tool_call]

\* the pieces of JSON text a tool_use block's input arrives in; a text is a
\* sequence of the tokens  {  }  "q":1
Fragments == {<<>>, <<"{">>, <<"}">>, <<"{", "\"q\":1">>}

\* json.loads: the object the text denotes, as its set of key/value pairs;
\* over these tokens the valid texts are {} and {"q":1}
json_loads(s) ==
    IF s = <<"{", "}">> THEN [ok |-> TRUE, value |-> {}]
    ELSE IF s = <<"{", "\"q\":1", "}">>
    THEN [ok |-> TRUE, value |-> {<<"q", 1>>}]
    ELSE [ok |-> FALSE, value |-> {}]

\* the stop reasons of the Anthropic Messages API, and one it may add
AnthropicStopReasons ==
    {"end_turn", "max_tokens", "stop_sequence", "tool_use", "refusal",
     "new_reason"}

\* finish reasons of the OpenAI and watsonx chat completion streams (None:
\* the chunk carries none), and one they may add
CompletionFinishReasons ==
    {"None", "stop", "length", "content_filter", "tool_calls", "new_reason"}

NoEvent == [type |-> "none", block |-> "", id |-> "", name |-> "",
            text |-> "", partial_json |-> <<>>, reason |-> "None",
            done |-> FALSE]

NoAdaptor == [state |-> "idle", provider |-> "none", create |-> "none",
              error |-> "none", sm |-> "START", tool_call_id |-> "",
              tool_call_name |-> "", tool_call_input |-> <<>>,
              events |-> <<>>, yielded |-> <<>>, yielded_at |-> <<>>,
              proto |-> "begin", blocks |-> 0, deltas |-> 0, pings |-> 0,
              request |-> <<>>]

\* the conversation of the chat() calls of SpecAdaptor
ChatConversation == <<SystemMessage, UserMessage("hello")>>

\* no adaptor's chat() is running
AdaptorIdle == adaptor = NoAdaptor

\* "yield MessageChunk(...)" while event number n is being handled
yield_chunk(a, chunk) ==
    [a EXCEPT !.yielded = Append(@, chunk),
              !.yielded_at = Append(@, Len(a.events))]

\* "match event.delta.stop_reason" of the Anthropic adaptor
anthropic_finish_reason(stop_reason) ==
    IF stop_reason = "max_tokens" THEN "Length" ELSE "Stop"

\* "match ...finish_reason" of the OpenAI and the watsonx adaptor
completion_finish_reason(reason) ==
    IF reason = "stop" THEN "Stop"
    ELSE IF reason = "length" THEN "Length"
    ELSE IF reason = "None" THEN "None"
    ELSE "Other"

\* "if chunk.get('done', False): finish_reason = FinishReason.Stop"
ollama_finish_reason(done) == IF done THEN "Stop" ELSE "None"

\* mutant: the input buffer is not reset when a tool_use block starts
tool_input_at_start_kept(buffered) == buffered

\* 'tool_call_input = ""' when a tool_use block starts
tool_input_at_start(buffered) == <<>>

\* one pass of "for event in chunk_stream" of AnthropicAdaptor.chat
anthropic_event(a0, event) ==
    LET a == [a0 EXCEPT !.events = Append(@, event)]
    IN  IF a.sm = "START"
        THEN LET b == IF event.type = "content_block_start"
                         /\ event.block = "text"
                      THEN [a EXCEPT !.sm = "TEXT"]
                      ELSE IF event.type = "content_block_start"
                              /\ event.block = "tool_use"
                      THEN [a EXCEPT
                              !.sm = "TOOL",
                              !.tool_call_id = event.id,
                              !.tool_call_name = event.name,
                              !.tool_call_input = tool_input_at_start(@)]
                      ELSE a
                 finish_reason ==
                      IF event.type = "message_delta"
                      THEN anthropic_finish_reason(event.reason)
                      ELSE "None"
             IN  yield_chunk(b, MessageChunk("", finish_reason, NoToolCall))
        ELSE IF a.sm = "TEXT"
        THEN IF event.type = "content_block_delta" /\ event.block = "text_delta"
             THEN yield_chunk(a, MessageChunk(event.text, "None", NoToolCall))
             ELSE IF event.type = "content_block_stop"
             THEN [a EXCEPT !.sm = "START"]
             ELSE a
        ELSE IF event.type = "content_block_delta"
                /\ event.block = "input_json_delta"
             THEN [a EXCEPT !.tool_call_input = @ \o event.partial_json]
             ELSE IF event.type = "content_block_stop"
             THEN LET parsed == json_loads(a.tool_call_input)
                  IN  IF parsed.ok
                      THEN [yield_chunk(a,
                               MessageChunk("", "None",
                                   ToolCall(a.tool_call_id, a.tool_call_name,
                                            parsed.value)))
                            EXCEPT !.sm = "START"]
                      ELSE [a EXCEPT !.state = "raised",
                                     !.error = "JSONDecodeError"]
             ELSE a

\* the events the Anthropic Messages stream can send next: message_start,
\* then content blocks (start, deltas, stop) one after the other, then
\* message_delta and message_stop; a ping may come in between
AnthropicEvents(a) ==
    (IF a.pings < MaxPings /\ a.proto \in {"between", "text", "tool"}
     THEN {[NoEvent EXCEPT !.type = "ping"]} ELSE {})
    \cup
    (IF a.proto = "begin" THEN {[NoEvent EXCEPT !.type = "message_start"]}
     ELSE IF a.proto = "between"
     THEN {[NoEvent EXCEPT !.type = "message_delta", !.reason = r] :
              r \in AnthropicStopReasons}
          \cup (IF a.blocks < MaxBlocks
                THEN {[NoEvent EXCEPT !.type = "content_block_start",
                                      !.block = "text"]}
                     \cup {[NoEvent EXCEPT
                              !.type = "content_block_start",
                              !.block = "tool_use",
                              !.id = IF a.blocks = 0 THEN "toolu_1"
                                     ELSE "toolu_2",
                              !.name = name] : name \in ToolNames}
                ELSE {})
     ELSE IF a.proto = "text"
     THEN {[NoEvent EXCEPT !.type = "content_block_stop"]}
          \cup (IF a.deltas < MaxDeltas
                THEN {[NoEvent EXCEPT !.type = "content_block_delta",
                                      !.block = "text_delta", !.text = "hi"]}
                ELSE {})
     ELSE IF a.proto = "tool"
     THEN {[NoEvent EXCEPT !.type = "content_block_stop"]}
          \cup (IF a.deltas < MaxDeltas
                THEN {[NoEvent EXCEPT !.type = "content_block_delta",
                                      !.block = "input_json_delta",
                                      !.partial_json = f] : f \in Fragments}
                ELSE {})
     ELSE IF a.proto = "delta_done"
     THEN {[NoEvent EXCEPT !.type = "message_stop"]}
     ELSE {})

\* where the Anthropic stream stands after sending event
proto_after(a, event) ==
    IF event.type = "ping" THEN [a EXCEPT !.pings = @ + 1]
    ELSE IF event.type = "message_start" THEN [a EXCEPT !.proto = "between"]
    ELSE IF event.type = "content_block_start"
    THEN [a EXCEPT !.proto = IF event.block = "text" THEN "text" ELSE "tool",
                   !.blocks = @ + 1, !.deltas = 0]
    ELSE IF event.type = "content_block_delta"
    THEN [a EXCEPT !.deltas = @ + 1]
    ELSE IF event.type = "content_block_stop"
    THEN [a EXCEPT !.proto = "between"]
    ELSE IF event.type = "message_delta"
    THEN [a EXCEPT !.proto = "delta_done"]
    ELSE [a EXCEPT !.proto = "stopped"]

\* the outcomes of the provider's streaming request: accepted, or refused
\* (bad key, overloaded, network down)
CreateOutcomes == {"ok", "Error"}

\* "try: chunk_stream = self.c.messages.create(...) / except Exception:
\* print(...)" and "if chunk_stream is None: return"
anthropic_create(a, create) ==
    IF create = "ok" THEN [a EXCEPT !.state = "streaming"]
    ELSE [a EXCEPT !.state = "returned"]

\* AnthropicAdaptor.chat up to its "for event in chunk_stream"
AnthropicChat ==
    /\ adaptor.state = "idle"
    /\ \E create \in CreateOutcomes :
          adaptor' = anthropic_create(
                        [NoAdaptor EXCEPT
                           !.provider = "anthropic", !.create = create,
                           !.request = prepare("anthropic", ChatConversation)],
                        create)
    /\ UNCHANGED <<regVars, loopVars, stream, threads, tool_writes, gateway,
                   request>>

AnthropicEvent ==
    /\ adaptor.state = "streaming"
    /\ adaptor.provider = "anthropic"
    /\ \E event \in AnthropicEvents(adaptor) :
          adaptor' = anthropic_event(proto_after(adaptor, event), event)
    /\ UNCHANGED <<regVars, loopVars, stream, threads, tool_writes, gateway,
                   request>>

\* the chunks a chat completion stream (OpenAI, watsonx) can send next;
\* the chunk that carries a finish reason is the last one
CompletionEvents(a) ==
    IF a.proto = "stopped" THEN {}
    ELSE {[NoEvent EXCEPT !.type = "chunk", !.text = t, !.reason = r] :
             t \in {"", "hi"},
             r \in IF a.deltas < MaxDeltas THEN CompletionFinishReasons
                   ELSE CompletionFinishReasons \ {"None"}}

\* where a completion stream stands after sending event
completion_after(a, event) ==
    [a EXCEPT !.deltas = @ + 1,
              !.proto = IF event.reason = "None" /\ ~event.done
                        THEN "between" ELSE "stopped"]

\* a streaming request that is refused raises out of the adaptor; chat() is
\* a generator, so the loop meets the error when it first reads the stream
create_raises(a, create) ==
    IF create = "ok" THEN [a EXCEPT !.state = "streaming", !.proto = "between"]
    ELSE [a EXCEPT !.state = "raised", !.error = create]

\* OpenAIAdaptor.chat up to its "for event in completion"
OpenAIChat ==
    /\ adaptor.state = "idle"
    /\ \E create \in CreateOutcomes :
          adaptor' = create_raises(
                        [NoAdaptor EXCEPT
                           !.provider = "openai", !.create = create,
                           !.request = prepare("openai", ChatConversation)],
                        create)
    /\ UNCHANGED <<regVars, loopVars, stream, threads, tool_writes, gateway,
                   request>>

\* one pass of "for event in completion" of OpenAIAdaptor.chat
openai_event(a0, event) ==
    LET a == [a0 EXCEPT !.events = Append(@, event)]
    IN  yield_chunk(a, MessageChunk(event.text,
                                    completion_finish_reason(event.reason),
                                    NoToolCall))

OpenAIEvent ==
    /\ adaptor.state = "streaming"
    /\ adaptor.provider = "openai"
    /\ \E event \in CompletionEvents(adaptor) :
          adaptor' = openai_event(completion_after(adaptor, event), event)
    /\ UNCHANGED <<regVars, loopVars, stream, threads, tool_writes, gateway,
                   request>>

\* "except WMLClientError as ex: raise ChatException(str(ex))"; any other
\* exception leaves the adaptor as it is
watsonx_create(a, create) ==
    IF create = "ok" THEN [a EXCEPT !.state = "streaming", !.proto = "between"]
    ELSE [a EXCEPT !.state = "raised",
                   !.error = IF create = "WMLClientError" THEN "ChatException"
                             ELSE create]

\* WatsonxAdaptor.chat up to its "for chunk in stream_response"
WatsonxChat ==
    /\ adaptor.state = "idle"
    /\ \E create \in CreateOutcomes \cup {"WMLClientError"} :
          adaptor' = watsonx_create(
                        [NoAdaptor EXCEPT
                           !.provider = "watsonx", !.create = create,
                           !.request = prepare("watsonx", ChatConversation)],
                        create)
    /\ UNCHANGED <<regVars, loopVars, stream, threads, tool_writes, gateway,
                   request>>

\* a watsonx chunk without choices (usage only) carries no text and no
\* finish reason
WatsonxEvents(a) ==
    CompletionEvents(a)
    \cup (IF a.proto /= "stopped" /\ a.deltas < MaxDeltas
          THEN {[NoEvent EXCEPT !.type = "usage"]} ELSE {})

\* one pass of "for chunk in stream_response" of WatsonxAdaptor.chat
watsonx_event(a0, event) ==
    LET a == [a0 EXCEPT !.events = Append(@, event)]
    IN  IF event.type = "chunk"
        THEN yield_chunk(a, MessageChunk(event.text,
                                completion_finish_reason(event.reason),
                                NoToolCall))
        ELSE yield_chunk(a, MessageChunk("", "None", NoToolCall))

WatsonxEvent ==
    /\ adaptor.state = "streaming"
    /\ adaptor.provider = "watsonx"
    /\ \E event \in WatsonxEvents(adaptor) :
          adaptor' = watsonx_event(completion_after(adaptor, event), event)
    /\ UNCHANGED <<regVars, loopVars, stream, threads, tool_writes, gateway,
                   request>>

\* "m = self._show(model) / if m is None: logger.error(...); return", then
\* "response = self.c.chat(...)"
ollama_create(a, create) ==
    IF create = "no_modelinfo" THEN [a EXCEPT !.state = "returned"]
    ELSE create_raises(a, create)

\* OllamaAdaptor.chat up to its "for chunk in response"
OllamaChat ==
    /\ adaptor.state = "idle"
    /\ \E create \in CreateOutcomes \cup {"no_modelinfo"} :
          adaptor' = ollama_create(
                        [NoAdaptor EXCEPT
                           !.provider = "ollama", !.create = create,
                           !.request = prepare("ollama", ChatConversation)],
                        create)
    /\ UNCHANGED <<regVars, loopVars, stream, threads, tool_writes, gateway,
                   request>>

\* the done_reason values of the Ollama chat stream
OllamaDoneReasons == {"stop", "length", "load"}

\* the chunks the Ollama stream can send next; the done chunk is the last
OllamaEvents(a) ==
    IF a.proto = "stopped" THEN {}
    ELSE {[NoEvent EXCEPT !.type = "chunk", !.text = "", !.done = TRUE,
                          !.reason = r] : r \in OllamaDoneReasons}
         \cup (IF a.deltas < MaxDeltas
               THEN {[NoEvent EXCEPT !.type = "chunk", !.text = "hi"]}
               ELSE {})

\* one pass of "for chunk in response" of OllamaAdaptor.chat
ollama_event(a0, event) ==
    LET a == [a0 EXCEPT !.events = Append(@, event)]
    IN  yield_chunk(a, MessageChunk(event.text,
                                    ollama_finish_reason(event.done),
                                    NoToolCall))

OllamaEvent ==
    /\ adaptor.state = "streaming"
    /\ adaptor.provider = "ollama"
    /\ \E event \in OllamaEvents(adaptor) :
          adaptor' = ollama_event(completion_after(adaptor, event), event)
    /\ UNCHANGED <<regVars, loopVars, stream, threads, tool_writes, gateway,
                   request>>

\* the provider's stream is exhausted: the generator returns
AdaptorStreamEnd ==
    /\ adaptor.state = "streaming"
    /\ adaptor.proto = "stopped"
    /\ adaptor' = [adaptor EXCEPT !.state = "returned"]
    /\ UNCHANGED <<regVars, loopVars, stream, threads, tool_writes, gateway,
                   request>>

\* reading the provider's stream raises (connection lost, provider error
\* event): no adaptor catches it inside its loop
AdaptorStreamError ==
    /\ adaptor.state = "streaming"
    /\ adaptor.proto /= "stopped"
    /\ adaptor' = [adaptor EXCEPT !.state = "raised", !.error = "Error"]
    /\ UNCHANGED <<regVars, loopVars, stream, threads, tool_writes, gateway,
                   request>>

\* ------------------------------------------------------------------------
\* SpecRegistry: the registry alone, over every configuration
\* ------------------------------------------------------------------------

\* the entries are told apart by position, so the first one is given "u1"
InitRegistry ==
    /\ config \in [1..NumServers -> ServerRecs]
    /\ config[1].id = "u1"
    /\ RegistryInit
    /\ PageInit
    /\ StreamIdle /\ ThreadsIdle /\ GatewayUnbuilt /\ AdaptorIdle
    /\ RequestIdle

NextRegistry ==
    \/ InitialiseTools
    \/ GetEnabledTools
    \/ ExecuteTool

SpecRegistry == InitRegistry /\ [][NextRegistry]_vars

\* ------------------------------------------------------------------------
\* Spec: the chat page over one configured server
\* ------------------------------------------------------------------------

PageConfig == <<[id |-> "u1", allowed_tools |-> <<"search">>]>>

\* what the server answered when the entrypoint ran initialise_tools
PageListings == {[status |-> "ok", tools |-> {"search", "add"}],
                 [status |-> "Error", tools |-> {}]}

\* the registry once "tools.registry.initialise_tools(...)" of the
\* entrypoint has returned
AfterEntrypoint(cfg, listings) ==
    LET fresh == [s \in ServerIds |-> 0]
        r == initialise_tools(cfg, listings, fresh, 0)
    IN  /\ config = cfg
        /\ r.raised = "none"
        /\ client_cache = r.cache
        /\ clients_created = r.n
        /\ tools = r.new_tools
        /\ initialised = TRUE
        /\ completed = TRUE
        /\ discovered = listings
        /\ lastOp = [NoOp EXCEPT !.op = "initialise_tools",
                                 !.contacted = r.contacted,
                                 !.clients = r.clients, !.created = r.n]

Init ==
    /\ \E l \in PageListings : AfterEntrypoint(PageConfig, <<l>>)
    /\ PageInit
    /\ StreamIdle /\ ThreadsIdle /\ GatewayUnbuilt /\ AdaptorIdle
    /\ RequestIdle

Next ==
    \/ SubmitPrompt
    \/ StartGenerate
    \/ BeginTurn
    \/ RecvChunk
    \/ StreamEnd
    \/ StreamError
    \/ ExecTool
    \/ EndTurn

Spec == Init /\ [][Next]_vars

\* ------------------------------------------------------------------------
\* SpecRetrigger: every stream asks for one call of the registered tool
\* ------------------------------------------------------------------------

\* the tool answers "4", or its server cannot be reached
RetriggerConns ==
    {[listing |-> [status |-> "ok", tools |-> {"search"}],
      call |-> [status |-> "ok", segs |-> <<TextSeg("4")>>]],
     [listing |-> [status |-> "Error", tools |-> {}], call |-> NoCall]}

InitRetrigger ==
    /\ AfterEntrypoint(PageConfig, <<[status |-> "ok", tools |-> {"search"}]>>)
    /\ PageInit
    /\ StreamIdle /\ ThreadsIdle /\ GatewayUnbuilt /\ AdaptorIdle
    /\ RequestIdle

UserPrompts ==
    Cardinality({i \in DOMAIN messages : messages[i].type = "UserMessage"})

SubmitChat ==
    /\ UserPrompts < MaxSubmits
    /\ submit_prompt(<<>>, "hello")

ToolCallChunk ==
    /\ chunks = 0
    /\ recv_chunk([content |-> "", tool_call |-> "search"])

StreamEndAfterCall ==
    /\ chunks = 1
    /\ StreamEnd

RetriggerExec == \E conn \in RetriggerConns : exec_tool(conn)

NextRetrigger ==
    \/ SubmitChat
    \/ StartGenerate
    \/ BeginTurn
    \/ ToolCallChunk
    \/ StreamEndAfterCall
    \/ RetriggerExec
    \/ EndTurn

SpecRetrigger == InitRetrigger /\ [][NextRetrigger]_vars

\* ------------------------------------------------------------------------
\* SpecStream: one stream_model_response over every small chunk stream
\* ------------------------------------------------------------------------

InitStream ==
    /\ config = PageConfig
    /\ RegistryInit
    /\ PageInit
    /\ StreamInit /\ ThreadsIdle /\ GatewayUnbuilt /\ AdaptorIdle
    /\ RequestIdle

NextStream ==
    \/ StreamChunk
    \/ StreamExhausted

SpecStream == InitStream /\ [][NextStream]_vars

\* ------------------------------------------------------------------------
\* SpecThreads: the registry shared by the script threads
\* ------------------------------------------------------------------------

InitThreads ==
    /\ config = PageConfig
    /\ RegistryInit
    /\ PageInit
    /\ StreamIdle /\ ThreadsIdle /\ GatewayUnbuilt /\ AdaptorIdle
    /\ RequestIdle

NextThreads ==
    \E t \in Threads :
        \/ ThreadInitialise(t)
        \/ ThreadClientCheck(t)
        \/ ThreadClientCreate(t)
        \/ WorkerStart(t)
        \/ WorkerConnected(t)
        \/ WorkerListed(t)
        \/ WorkerCalled(t)
        \/ ThreadResume(t)
        \/ ThreadWrite(t)
        \/ ThreadSetInitialised(t)
        \/ ThreadGetEnabled(t)
        \/ ThreadRead(t)
        \/ ThreadExecute(t)
        \/ ThreadLookup(t)

SpecThreads == InitThreads /\ [][NextThreads]_vars

\* ------------------------------------------------------------------------
\* SpecGateway: construction of the ChatGateway, then chat() calls
\* ------------------------------------------------------------------------

InitGateway ==
    /\ config = PageConfig
    /\ RegistryInit
    /\ PageInit
    /\ StreamIdle /\ ThreadsIdle /\ GatewayUnbuilt /\ AdaptorIdle
    /\ RequestIdle

NextGateway ==
    \/ GatewayConstruct
    \/ GatewayChat

SpecGateway == InitGateway /\ [][NextGateway]_vars

\* ------------------------------------------------------------------------
\* SpecAdaptor: one chat() call of a provider adaptor
\* ------------------------------------------------------------------------

InitAdaptor ==
    /\ config = PageConfig
    /\ RegistryInit
    /\ PageInit
    /\ StreamIdle /\ ThreadsIdle /\ GatewayUnbuilt /\ AdaptorIdle
    /\ RequestIdle

NextAdaptor ==
    \/ AnthropicChat
    \/ AnthropicEvent
    \/ OpenAIChat
    \/ OpenAIEvent
    \/ WatsonxChat
    \/ WatsonxEvent
    \/ OllamaChat
    \/ OllamaEvent
    \/ AdaptorStreamEnd
    \/ AdaptorStreamError

SpecAdaptor == InitAdaptor /\ [][NextAdaptor]_vars

\* ------------------------------------------------------------------------
\* SpecRequest: the projection of a conversation for a provider
\* ------------------------------------------------------------------------

InitRequest ==
    /\ config = PageConfig
    /\ RegistryInit
    /\ PageInit
    /\ StreamIdle /\ ThreadsIdle /\ GatewayUnbuilt /\ AdaptorIdle
    /\ RequestIdle

NextRequest == PrepareRequest

SpecRequest == InitRequest /\ [][NextRequest]_vars

\* ------------------------------------------------------------------------
\* SpecRegenerate: the Regenerate button over every small conversation
\* ------------------------------------------------------------------------

InitRegenerate ==
    /\ AfterEntrypoint(PageConfig, <<[status |-> "ok", tools |-> {"search"}]>>)
    /\ messages \in Conversations
    /\ generate_assistant = FALSE
    /\ pc = "idle"
    /\ turns = 0
    /\ tool_acc = <<>>
    /\ tool_idx = 1
    /\ text = ""
    /\ chunks = 0
    /\ next_id = 1
    /\ run = NoRun
    /\ StreamIdle /\ ThreadsIdle /\ GatewayUnbuilt /\ AdaptorIdle
    /\ RequestIdle

NextRegenerate ==
    \/ HandleRegenerate
    \/ StartGenerate

SpecRegenerate == InitRegenerate /\ [][NextRegenerate]_vars

\* ------------------------------------------------------------------------
\* Properties of the tool registry (checked under SpecRegistry)
\* ------------------------------------------------------------------------

\* the last registry call was an initialise_tools that ran discovery
RanDiscovery == lastOp.op = "initialise_tools" /\ lastOp.contacted /= <<>>

IsLive(i) == discovered[i].status = "ok"

Indices(n) == [i \in 1..n |-> i]

\* C6: once an initialise_tools call has returned normally, every later
\* call is a no-op: it returns, leaves the tools map and the client cache as
\* they were, creates no client and contacts no tool server.
C6_InitialiseIdempotent ==
    [][(completed /\ InitialiseTools) =>
          /\ tools' = tools
          /\ client_cache' = client_cache
          /\ clients_created' = clients_created
          /\ initialised'
          /\ lastOp'.kind = "return"
          /\ lastOp'.contacted = <<>>
          /\ lastOp'.created = 0]_vars

\* a second initialise_tools call has been made on a registry that holds tools
C6_Witness ==
    /\ completed
    /\ lastOp.op = "initialise_tools"
    /\ lastOp.contacted = <<>>
    /\ DOMAIN tools /= {}

\* two configured servers both allow and advertise one name
DuplicateAllowed ==
    \E i, j \in DOMAIN discovered :
        /\ i < j
        /\ IsLive(i) /\ IsLive(j)
        /\ discovered[i].tools \cap discovered[j].tools
              \cap allowed_names(config[i]) \cap allowed_names(config[j]) /= {}

\* C7: when two configured servers both allow and advertise a tool of the
\* same name, initialise_tools fails with the duplicate-name ValueError,
\* registers nothing, and the registry stays uninitialised:
\* get_enabled_tools still fails with "Tools not initialised".
C7_DuplicateNameFailsInit ==
    (RanDiscovery /\ DuplicateAllowed) =>
        /\ lastOp.kind = "ValueError"
        /\ tools = <<>>
        /\ ~initialised
        /\ get_enabled_tools.kind = "RuntimeError"
        /\ get_enabled_tools.value = "Tools not initialised"

\* an initialise_tools call has just met such a duplicate
C7_Witness ==
    /\ RanDiscovery
    /\ DuplicateAllowed
    /\ lastOp.kind = "ValueError"
    /\ Len(lastOp.contacted) >= 2

\* C8: while no initialise_tools call has returned normally, get_enabled_tools
\* and execute_tool (for every name and every behaviour of the servers) raise
\* the "Tools not initialised" RuntimeError and contact no tool server.
C8_NotInitialisedFails ==
    ~completed =>
        /\ get_enabled_tools.kind = "RuntimeError"
        /\ get_enabled_tools.contacted = <<>>
        /\ \A n \in ToolNames \cup {BogusName}, conn \in Conns :
              LET r == execute_tool(n, conn)
              IN  /\ r.kind = "RuntimeError"
                  /\ r.value = "Tools not initialised"
                  /\ r.contacted = <<>>
                  /\ ~r.invoked
        /\ lastOp.op \in {"get_enabled_tools", "execute_tool"} =>
              /\ lastOp.kind = "RuntimeError"
              /\ lastOp.contacted = <<>>
              /\ lastOp.created = 0

\* execute_tool has been called after an initialise_tools call that failed
C8_Witness ==
    /\ ~completed
    /\ clients_created > 0
    /\ lastOp.op = "execute_tool"
    /\ lastOp.kind = "RuntimeError"

\* tool t is allowed by the server it belongs to and was listed by it
AllowedAndAdvertised(t) ==
    /\ t.server \in DOMAIN config
    /\ t.name \in allowed_names(config[t.server])
    /\ IsLive(t.server)
    /\ t.name \in discovered[t.server].tools

\* C9: every registered tool (in the tools map, in a get_enabled_tools
\* snapshot, or run by execute_tool) is on the allow-list of its server and
\* was listed by that server at discovery; a listed tool that is not allowed
\* is not registered for that server, and a server with an empty allow-list
\* owns no registered tool.
C9_OnlyAllowedAdvertisedTools ==
    /\ \A n \in DOMAIN tools : tools[n].name = n /\ AllowedAndAdvertised(tools[n])
    /\ \A t \in lastOp.snapshot : AllowedAndAdvertised(t)
    /\ \A i \in DOMAIN config :
          config[i].allowed_tools = <<>> =>
              \A n \in DOMAIN tools : tools[n].server /= i
    /\ lastOp.invoked => completed /\ DOMAIN tools /= {}

\* tools are registered although a server listed a tool it does not allow
C9_Witness ==
    /\ completed
    /\ DOMAIN tools /= {}
    /\ lastOp.op = "get_enabled_tools"
    /\ lastOp.snapshot /= {}
    /\ \E i \in DOMAIN config :
          /\ IsLive(i)
          /\ discovered[i].tools \ allowed_names(config[i]) /= {}
          /\ allowed_names(config[i]) /= {}

\* the configuration and the listings without the servers that failed
LiveIndices == SelectSeq(Indices(Len(config)), IsLive)

LiveConfig == [k \in 1..Len(LiveIndices) |-> config[LiveIndices[k]]]

LiveListings == [k \in 1..Len(LiveIndices) |-> discovered[LiveIndices[k]]]

\* C10: when a server fails at discovery (any exception while connecting or
\* listing), initialise_tools ends as it would with that server absent from
\* the configuration: the server's error is never raised, the server owns no
\* registered tool, and the tools registered are those the remaining
\* servers yield; with at most one server left it returns normally.
C10_DeadServerContributesNothing ==
    (RanDiscovery /\ \E i \in DOMAIN discovered : ~IsLive(i)) =>
        LET r == initialise_tools(LiveConfig, LiveListings,
                                  [s \in ServerIds |-> 0], 0)
        IN  /\ lastOp.kind \in {"return", "ValueError"}
            /\ (lastOp.kind = "return") = (r.raised = "none")
            /\ Len(LiveIndices) <= 1 => lastOp.kind = "return"
            /\ lastOp.kind = "return" =>
                  /\ initialised
                  /\ \A n \in DOMAIN tools : IsLive(tools[n].server)
                  /\ {<<n, tools[n].server>> : n \in DOMAIN tools}
                       = {<<n, LiveIndices[r.new_tools[n].server]>> :
                             n \in DOMAIN r.new_tools}

\* one server failed with an exception other than ProcessLookupError, and a
\* tool of another server was registered all the same
C10_Witness ==
    /\ RanDiscovery
    /\ lastOp.kind = "return"
    /\ \E i \in DOMAIN discovered : discovered[i].status = "Error"
    /\ \E i \in DOMAIN discovered : discovered[i].status = "ProcessLookupError"
          \/ IsLive(i)
    /\ DOMAIN tools /= {}

\* C17: over every sequence of registry calls at most one client is created
\* per server identity: the clients created are exactly those in the cache,
\* one per identity, so a cached client is never replaced; and every
\* discovery or execution talks to the client cached for its server.
C17_OneClientPerServer ==
    /\ clients_created = Cardinality({s \in ServerIds : client_cache[s] /= 0})
    /\ \A s1, s2 \in ServerIds :
          (s1 /= s2 /\ client_cache[s1] /= 0) =>
              client_cache[s1] /= client_cache[s2]
    /\ Len(lastOp.clients) = Len(lastOp.contacted)
    /\ \A k \in DOMAIN lastOp.contacted :
          /\ lastOp.clients[k] /= 0
          /\ lastOp.clients[k] = client_cache[lastOp.contacted[k]]

\* two configured entries share one identity, discovery ran twice, and a
\* tool was run on the one client
C17_Witness ==
    /\ Len(config) >= 2
    /\ config[1].id = config[2].id
    /\ clients_created = 1
    /\ lastOp.op = "execute_tool"
    /\ lastOp.invoked
    /\ lastOp.clients = <<1>>

\* ------------------------------------------------------------------------
\* Properties of the agent loop
\* ------------------------------------------------------------------------

IsCall(m) == m.type = "ToolCallMessage"
IsResult(m) == m.type = "ToolResultMessage"
IsUserInput(m) == m.type \in {"UserMessage", "IncludedFile", "IncludedImage"}

\* C1 (SpecRetrigger): one generate_assistant_message makes at most 20
\* chat() calls, and when its 20th turn produced tool calls it ends by
\* returning, not by raising.
C1_TurnCeilingSoftStop ==
    /\ run.chat_calls <= TurnLimit
    /\ (pc = "idle" /\ run.chat_calls = TurnLimit /\ Len(tool_acc) > 0) =>
          run.outcome = "returned"

\* C2 (SpecRetrigger): when every stream asks for one tool call and every
\* execution returns, generate_assistant_message returns after exactly 20
\* chat() calls, and the conversation has gained exactly 20
\* ToolCallMessage/ToolResultMessage pairs, in the order of the turns.
C2_RetriggerTwentyPairs ==
    (pc = "idle" /\ run.outcome = "returned") =>
        /\ run.chat_calls = TurnLimit
        /\ turns = 0
        /\ Len(messages) >= run.base + 2 * TurnLimit
        /\ \A j \in DOMAIN messages :
              (IsCall(messages[j]) \/ IsResult(messages[j])) /\ j > run.base
              => j <= run.base + 2 * TurnLimit
        /\ \A k \in 1..TurnLimit :
              /\ messages[run.base + 2 * k - 1]
                    = ToolCallMessage(run.first_id + k - 1, "search")
              /\ messages[run.base + 2 * k]
                    = ToolResultMessage(run.first_id + k - 1, "search", "4")

\* a generate_assistant_message that ran into the turn limit has returned
C2_Witness ==
    /\ pc = "idle"
    /\ run.outcome = "returned"
    /\ run.executed = TurnLimit
    /\ Len(messages) > 2 * TurnLimit

\* C3 (Spec): every ToolResultMessage has the id of a ToolCallMessage that
\* stands earlier in the conversation, and no id is carried by two calls or
\* by two results.
C3_ResultsPairedUniqueIds ==
    /\ \A j \in DOMAIN messages :
          IsResult(messages[j]) =>
              \E i \in 1..(j - 1) :
                  IsCall(messages[i]) /\ messages[i].id = messages[j].id
    /\ \A i, j \in DOMAIN messages :
          (/\ i /= j
           /\ messages[i].type = messages[j].type
           /\ IsCall(messages[i]) \/ IsResult(messages[i]))
          => messages[i].id /= messages[j].id

\* the conversation holds two results, and a call of the turn was dropped
C3_Witness ==
    /\ pc = "idle"
    /\ Cardinality({j \in DOMAIN messages : IsResult(messages[j])}) = 2
    /\ next_id > 2

\* C4 (Spec): every ToolCallMessage is immediately followed by the
\* ToolResultMessage with its id and name, so no user input stands between
\* a call and its result.
C4_CallFollowedByResult ==
    \A i \in DOMAIN messages :
        IsCall(messages[i]) =>
            /\ i < Len(messages)
            /\ IsResult(messages[i + 1])
            /\ messages[i + 1].id = messages[i].id
            /\ messages[i + 1].name = messages[i].name
            /\ \A j \in DOMAIN messages :
                  IsUserInput(messages[j]) => j < i \/ j > i + 1

\* a pair was appended and a later call of the same turn raised
C4_Witness ==
    /\ pc = "idle"
    /\ run.outcome = "raised"
    /\ tool_idx = 2
    /\ IsCall(messages[Len(messages) - 1])
    /\ IsResult(messages[Len(messages)])
    /\ \E j \in DOMAIN messages : IsUserInput(messages[j])

\* C5 (Spec): execute_tool on a registered tool whose server fails while
\* connecting, listing or calling returns the empty string, and the loop
\* appends the ToolCallMessage and a ToolResultMessage with empty result.
C5_UnreachableServerEmptyResult ==
    (lastOp.op = "execute_tool" /\ lastOp.failure /= "none") =>
        /\ lastOp.kind = "return"
        /\ lastOp.value = ""
        /\ run.outcome /= "raised"
        /\ tool_idx > 1
        /\ \E i \in DOMAIN messages :
              /\ i < Len(messages)
              /\ messages[i] = tool_acc[tool_idx - 1]
              /\ messages[i + 1] = ToolResultMessage(messages[i].id,
                                                     messages[i].name, "")

\* s is an initial part of t
IsPrefix(s, t) == Len(s) <= Len(t) /\ SubSeq(t, 1, Len(s)) = s

\* C12 (Spec): once a provider stream has raised during an invocation, the
\* conversation as it was at the error (the messages of before the
\* invocation and those appended by its earlier turns) stays an initial
\* part of the conversation: no message is removed, changed or moved.
C12_NoRollbackOnProviderError ==
    run.error_seen =>
        /\ IsPrefix(run.at_error, messages)
        /\ Len(run.at_error) >= run.base

\* a stream raised in the second turn, after a pair had been appended, and
\* the loop has appended more since
C12_Witness ==
    /\ run.error_seen
    /\ Len(run.at_error) > run.base + 1
    /\ IsResult(run.at_error[Len(run.at_error)])
    /\ Len(messages) > Len(run.at_error)

\* C13 (Spec): after a provider stream has raised in an invocation of
\* generate_assistant_message, that invocation reads no further chat()
\* stream.
C13_NoChatAfterProviderError ==
    run.error_seen => pc /= "stream"

\* the messages the current turn has appended
TurnMessages == SubSeq(messages, run.turn_base + 1, Len(messages))

\* the accumulated calls whose execute_tool has returned, in arrival order
ReturnedCalls ==
    LET returned_at(k) == k <= Len(run.exec_log)
                          /\ run.exec_log[k].kind = "return"
        ks == SelectSeq(Indices(Len(tool_acc)), returned_at)
    IN  [j \in 1..Len(ks) |-> tool_acc[ks[j]]]

C11_TextIsConcatenationOfContents ==
    stream.state = "closed" =>
        /\ write_stream(stream.yielded) = stream.received
        /\ stream.m = stream.received

\* character i of s belongs to one of the fences \[ \] \( \)
InFence(s, i) ==
    LET brackets == {"[", "]", "(", ")"}
    IN  \/ i < Len(s) /\ s[i] = "\\" /\ s[i + 1] \in brackets
        \/ i > 1 /\ s[i - 1] = "\\" /\ s[i] \in brackets

\* C11 as it holds (SpecStream): when the stream is exhausted, the text is
\* the strings yielded joined in order, it is as long as the content fields
\* joined in arrival order, and it differs from them only at characters of a
\* LaTeX fence, which may have become "$": nothing is dropped, duplicated or
\* reordered, and a stream without fences is reproduced exactly.
C11_TextIsContentsUpToFences ==
    stream.state = "closed" =>
        /\ stream.m = write_stream(stream.yielded)
        /\ Len(stream.m) = Len(stream.received)
        /\ \A i \in 1..Len(stream.received) :
              \/ stream.m[i] = stream.received[i]
              \/ stream.m[i] = "$" /\ InFence(stream.received, i)
        /\ (\A i \in 1..Len(stream.received) : ~InFence(stream.received, i))
              => stream.m = stream.received

\* a fence was rewritten in a stream that was flushed twice and carried a
\* tool call
C11_Witness ==
    /\ stream.state = "closed"
    /\ stream.m /= stream.received
    /\ Len(stream.yielded) > WaitN
    /\ stream.tool_acc > 0

\* ------------------------------------------------------------------------
\* Properties of the registry under concurrent callers (SpecThreads)
\* ------------------------------------------------------------------------

\* the coroutine of thread t is between "async with client" and its end
InProgress(t) == threads[t].task \in {"entering", "listing", "calling"}

\* C16 (SpecThreads): whatever the interleaving of the threads, no two
\* tool-server operations (a discovery or an execution) are in progress at
\* the same time on the same cached client.
C16_NoOverlapOnConnection ==
    \A t1, t2 \in Threads :
        (t1 /= t2 /\ InProgress(t1) /\ InProgress(t2))
        => threads[t1].client /= threads[t2].client

\* C18 (SpecThreads): a reader never sees a partly built tools map:
\* get_enabled_tools fails or returns the whole tool set that some
\* initialise_tools wrote; and the map is written at most once, also when
\* initialise_tools is called from several threads at once.
C18_NoPartialMapWrittenOnce ==
    /\ \A t \in Threads :
          (/\ threads[t].last.op = "get_enabled_tools"
           /\ threads[t].last.kind = "return")
          => \E k \in DOMAIN tool_writes :
                threads[t].last.snapshot = Range(tool_writes[k])
    /\ \A t \in Threads :
          threads[t].last.kind = "RuntimeError" =>
              threads[t].last.value = "Tools not initialised"
    /\ Len(tool_writes) <= 1

\* ------------------------------------------------------------------------
\* Properties of the ChatGateway (checked under SpecGateway)
\* ------------------------------------------------------------------------

\* adaptor a was constructed and lists model
Lists(a, model) ==
    \E k \in DOMAIN gateway.probes :
        /\ Adaptors[k] = a
        /\ gateway.probes[k].status = "ok"
        /\ model \in Range(gateway.probes[k].models)

\* C19 (SpecGateway): chat() for a model that a constructed adaptor lists
\* calls an adaptor that lists it and yields that adaptor's chunks, all of
\* them, in order, ending as the adaptor's stream ends; for any other model
\* name it fails with KeyError, calls no adaptor and yields nothing.
C19_ChatIsPureDispatch ==
    gateway.chat.kind /= "none" =>
        IF \E a \in Range(Adaptors) : Lists(a, gateway.chat.model)
        THEN /\ Lists(gateway.chat.called, gateway.chat.model)
             /\ gateway.chat.chunks = gateway.chat.sent
             /\ gateway.chat.kind = IF gateway.chat.raises THEN "Error"
                                    ELSE "return"
        ELSE /\ gateway.chat.kind = "KeyError"
             /\ gateway.chat.called = "none"
             /\ gateway.chat.chunks = <<>>

\* a stream of two chunks came through from the Anthropic adaptor
C19_Witness ==
    /\ gateway.chat.kind = "return"
    /\ gateway.chat.called = "anthropic"
    /\ gateway.chat.chunks = <<"c1", "c2">>
    /\ gateway.probes[1].status /= "ok"

\* the models of the adaptors that were constructed, from probe k on
RECURSIVE ConstructedModels(_)
ConstructedModels(k) ==
    IF k > Len(Adaptors) THEN <<>>
    ELSE (IF gateway.probes[k].status = "ok" THEN gateway.probes[k].models
          ELSE <<>>) \o ConstructedModels(k + 1)

\* C20 (SpecGateway): whichever adaptors fail to construct (Ollama not
\* running, API keys missing), the gateway is constructed; list() is the
\* models of the constructed adaptors in probe order, every listed model
\* has an adaptor in the mapping, and an adaptor that failed owns no model.
C20_GatewaySurvivesFailedAdaptors ==
    gateway.state /= "none" =>
        /\ gateway.state = "built"
        /\ gateway.models = ConstructedModels(1)
        /\ Range(gateway.models) = DOMAIN gateway.model_to_client
        /\ \A model \in DOMAIN gateway.model_to_client :
              Lists(gateway.model_to_client[model], model)

\* Ollama is not running and the OpenAI key is missing; the other two
\* adaptors' models are listed
C20_Witness ==
    /\ gateway.state = "built"
    /\ gateway.probes[1].status = "ConnectionError"
    /\ gateway.probes[4].status = "MissingEnvVarException"
    /\ gateway.models = AnthropicModels \o WatsonxModels

\* the first adaptor, in probe order, that was constructed and lists model
FirstOwner(model) ==
    Adaptors[CHOOSE k \in DOMAIN gateway.probes :
                /\ Lists(Adaptors[k], model)
                /\ \A j \in 1..(k - 1) : ~Lists(Adaptors[j], model)]

\* C21 (SpecGateway): once the gateway is constructed every model name is
\* mapped to the first adaptor, in probe order, that registered it: an
\* adaptor probed later does not replace the adaptor already registered for
\* the name.
C21_FirstRegistrationKept ==
    gateway.state = "built" =>
        \A model \in DOMAIN gateway.model_to_client :
            gateway.model_to_client[model] = FirstOwner(model)

C26_ReverifiedBeforeInvoke ==
    (lastOp.op = "execute_tool" /\ lastOp.listed.status /= "none") =>
        /\ lastOp.contacted = <<config[tools[lastOp.tool].server].id>>
        /\ lastOp.clients =
              <<client_cache[config[tools[lastOp.tool].server].id]>>
        /\ lastOp.invoked =>
              /\ lastOp.listed.status = "ok"
              /\ lastOp.tool \in lastOp.listed.tools
        /\ (lastOp.listed.status = "ok"
            /\ lastOp.tool \notin lastOp.listed.tools) =>
              /\ ~lastOp.invoked
              /\ lastOp.kind = "return"
              /\ lastOp.value = ""

\* a registered tool was executed after its server stopped advertising it
C26_Witness ==
    /\ lastOp.op = "execute_tool"
    /\ lastOp.tool \in DOMAIN tools
    /\ lastOp.listed.status = "ok"
    /\ lastOp.tool \notin lastOp.listed.tools
    /\ lastOp.value = ""

\* C28 (SpecRegistry): initialise_tools raises the duplicate-name
\* ValueError only when some name is advertised by two servers and is on
\* the allow-list of both: a name that two servers advertise but that does
\* not survive both allow-lists does not fail initialisation.
C28_DuplicateOnlyForAllowedNames ==
    (RanDiscovery /\ lastOp.kind = "ValueError") => DuplicateAllowed

\* ------------------------------------------------------------------------
\* Properties of the provider adaptors (checked under SpecAdaptor)
\* ------------------------------------------------------------------------

\* the events at which a tool_use block starts
ToolStarts ==
    {i \in DOMAIN adaptor.events :
        /\ adaptor.events[i].type = "content_block_start"
        /\ adaptor.events[i].block = "tool_use"}

StopsAfter(i) ==
    {j \in DOMAIN adaptor.events :
        j > i /\ adaptor.events[j].type = "content_block_stop"}

\* the content_block_stop of the block that starts at event i
StopOf(i) == CHOOSE j \in StopsAfter(i) : \A k \in StopsAfter(i) : j <= k

\* the partial_json of the events i..j, concatenated in arrival order
RECURSIVE JsonBetween(_, _)
JsonBetween(i, j) ==
    IF i > j THEN <<>>
    ELSE adaptor.events[i].partial_json \o JsonBetween(i + 1, j)

\* the positions of the yielded chunks that carry a tool call
CallChunks ==
    {n \in DOMAIN adaptor.yielded : adaptor.yielded[n].tool_call.set}

\* C22 (SpecAdaptor): in a stream of the Anthropic adaptor every completed
\* tool_use block whose buffered input is valid JSON has yielded exactly one
\* chunk with a tool call, at the block's content_block_stop, with the id
\* and name of the block's start and the parse of the block's own
\* partial_json fragments in arrival order; a completed block whose input
\* is not valid JSON has yielded no chunk and chat() has raised at its
\* content_block_stop; no other event yields a tool call.
C22_OneToolCallPerToolBlock ==
    adaptor.provider = "anthropic" =>
        /\ \A i \in ToolStarts :
              StopsAfter(i) /= {} =>
                LET j == StopOf(i)
                    parsed == json_loads(JsonBetween(i + 1, j))
                    at_stop == {n \in DOMAIN adaptor.yielded :
                                   adaptor.yielded_at[n] = j}
                IN  IF parsed.ok
                    THEN /\ Cardinality(at_stop) = 1
                         /\ \A n \in at_stop :
                               adaptor.yielded[n] =
                                 MessageChunk("", "None",
                                     ToolCall(adaptor.events[i].id,
                                              adaptor.events[i].name,
                                              parsed.value))
                    ELSE /\ at_stop = {}
                         /\ j = Len(adaptor.events)
                         /\ adaptor.state = "raised"
                         /\ adaptor.error = "JSONDecodeError"
        /\ \A n \in CallChunks :
              \E i \in ToolStarts :
                 /\ StopsAfter(i) /= {}
                 /\ adaptor.yielded_at[n] = StopOf(i)

\* a response of two tool_use blocks, each with its input in two pieces,
\* has yielded the two calls with their own parameters
C22_Witness ==
    /\ adaptor.provider = "anthropic"
    /\ adaptor.state = "returned"
    /\ Cardinality(CallChunks) = 2
    /\ \E n, k \in CallChunks :
          /\ n < k
          /\ adaptor.yielded[n].tool_call.id = "toolu_1"
          /\ adaptor.yielded[n].tool_call.parameters = {<<"q", 1>>}
          /\ adaptor.yielded[k].tool_call.id = "toolu_2"
          /\ adaptor.yielded[k].tool_call.parameters = {}

\* the finish reason that goes with a stop reason of a provider
ExpectedFinish(reason) ==
    IF reason \in {"end_turn", "stop_sequence", "stop"} THEN "Stop"
    ELSE IF reason \in {"max_tokens", "length"} THEN "Length"
    ELSE "Other"

\* C23 (SpecAdaptor): the chunk an adaptor yields for an event that carries
\* a stop reason has finish reason Stop for a normal stop, Length for a
\* length or max-tokens limit, and Other for a reason the adaptor does not
\* know (the tool-use reasons, which the adaptors treat differently, are
\* left open).
C23_FinishReasonMapping ==
    \A n \in DOMAIN adaptor.yielded :
        LET event == adaptor.events[adaptor.yielded_at[n]]
        IN  event.reason \notin {"None", "tool_use", "tool_calls"} =>
               adaptor.yielded[n].finish_reason = ExpectedFinish(event.reason)

\* C27 (SpecAdaptor): when the provider refuses the streaming request of a
\* chat() call, the generator the agent loop reads raises: the loop is not
\* given a stream that ends normally.
C27_FailedRequestRaises ==
    adaptor.create \in {"Error", "WMLClientError"} =>
        /\ adaptor.state = "raised"
        /\ adaptor.yielded = <<>>

\* ------------------------------------------------------------------------
\* Properties of the projection (checked under SpecRequest)
\* ------------------------------------------------------------------------

\* the entries of the request that carry a file, system content, a user or
\* assistant chat turn
FileEntries ==
    {k \in DOMAIN request.entries : request.entries[k].kind = "file"}

SystemEntries ==
    {k \in DOMAIN request.entries : request.entries[k].role = "system"}

TurnEntries ==
    {k \in DOMAIN request.entries :
        /\ request.entries[k].kind = "text"
        /\ request.entries[k].role \in {"user", "assistant"}}

\* C24 (SpecRequest): in the request an adaptor builds, every IncludedFile
\* of the conversation has its block, every file block stands after all
\* system content and before every user or assistant chat turn, wherever
\* the file stands in the conversation, and the chat turns keep their
\* relative order.
C24_FilesAfterSystemBeforeTurns ==
    request.state = "built" =>
        /\ \A i \in DOMAIN request.messages :
              request.messages[i].type = "IncludedFile" =>
                 \E f \in FileEntries : request.entries[f].srcs = <<i>>
        /\ \A f \in FileEntries :
              /\ \A y \in SystemEntries : y < f
              /\ \A t \in TurnEntries : f < t
        /\ \A t, u \in TurnEntries :
              t < u => request.entries[t].srcs[1] < request.entries[u].srcs[1]

\* the conversation positions the request was made from
SentPositions ==
    UNION {Range(request.entries[k].srcs) : k \in DOMAIN request.entries}

TrailingRun ==
    {i \in DOMAIN messages :
        \A j \in i..Len(messages) :
            messages[j].type \in
               {"AssistantMessage", "ToolCallMessage", "ToolResultMessage"}}

\* C29 (SpecRegenerate): whatever the last message of the conversation is,
\* a run of _handle_regenerate removes exactly the maximal trailing run of
\* AssistantMessage, ToolCallMessage and ToolResultMessage entries, leaves
\* the earlier messages as they were, and sets generate_assistant.
C29_RegenerateRemovesTrailingRun ==
    [][(pc = "idle" /\ pc' = "idle") =>
          /\ messages' =
                SubSeq(messages, 1, Len(messages) - Cardinality(TrailingRun))
          /\ generate_assistant']_vars

====
